---- MODULE Spec2Model ----
(***************************************************************************)
(* A model of the document serializer of dom/serializers/                  *)
(* nsDocumentEncoder.cpp: the node walk, the range walk with its context   *)
(* tags, the selection walk, the encoding scope and the range promotion of *)
(* the copy encoder.  The content serializer is a collaborator: the model  *)
(* keeps the sequence of calls it accepted (the events) and lets one call  *)
(* of a pass fail.                                                         *)
(***************************************************************************)
EXTENDS Integers, Sequences, FiniteSets, TLC

(***************************************************************************)
(* Bounds of the model.                                                    *)
(***************************************************************************)
\* The serializer call that fails in a pass is one of the first MaxFailAt
\* calls (0: no call fails).
MaxFailAt == 4

\* The greatest of the small lengths EncodeToStringWithMaxLength is called
\* with.
MaxMaxLength == 6

(***************************************************************************)
(* The document trees.  A node is its index in its tree; 0 is nullptr.     *)
(* tag: the node name ("#document", "#text", "#comment", "#shadow-root",   *)
(* or an HTML element name).  kids: the light-tree children.  text: the    *)
(* characters of a text node, "w" for white space and "x" for anything     *)
(* else.  shadow: the shadow root of a host.  assigned: the nodes assigned *)
(* to a <slot>.  noframe: the nodes without a primary frame; hidden: the   *)
(* nodes whose frame is not visible; unselectable: the nodes whose frame   *)
(* is not selectable; contents: the display:contents elements; breaks: the *)
(* invisible <br>; editable: the editable nodes; padding: the <br> that    *)
(* pad an empty last line; content: the "#document-fragment" that holds    *)
(* the content of a <template>.                                            *)
(***************************************************************************)
Null == 0

\* K applied to v: v is a local of the code, computed once and then used by
\* the rest K of the function.
Let(v, K(_)) == K(v)

\* A tree without shadow roots, slots, invisible or editable nodes.  parent
\* is derived from kids: the parent of every node (0 for a root).
PlainTree(name, tags, kids, text) ==
  [name |-> name, tag |-> tags, kids |-> kids, text |-> text,
   parent       |-> [n \in DOMAIN tags |->
                      IF \E p \in DOMAIN kids : \E i \in DOMAIN kids[p] : kids[p][i] = n
                        THEN CHOOSE p \in DOMAIN kids :
                               \E i \in DOMAIN kids[p] : kids[p][i] = n
                        ELSE 0],
   shadow       |-> [n \in DOMAIN tags |-> 0],
   assigned     |-> [n \in DOMAIN tags |-> <<>>],
   noframe      |-> {},
   hidden       |-> {},
   unselectable |-> {},
   contents     |-> {},
   breaks       |-> {},
   editable     |-> {},
   padding      |-> {},
   content      |-> [n \in DOMAIN tags |-> 0]]

\* 1 #document, 2 <body>, 3 <p>, 4 "H ", 5 <b>, 6 "wo", 7 "!":
\* <body><p>H <b>wo</b>!</p></body>
DocInline ==
  PlainTree("inline", <<"#document", "body", "p", "#text", "b", "#text", "#text">>,
            << <<2>>, <<3>>, <<4, 5, 7>>, <<>>, <<6>>, <<>>, <<>> >>,
            << <<>>, <<>>, <<>>, <<"x", "w">>, <<>>, <<"x", "x">>, <<"x">> >>)

\* 1 #document, 2 <body>, 3 <b>, 4 <span style="display:none">, 5 "xx" in it,
\* 6 "x" with visibility:hidden, 7 "x" with user-select:none, 8 "x" without
\* a frame of its own:
\* <body><b><span>xx</span>xxx</b></body>
DocHidden ==
  [PlainTree("hidden", <<"#document", "body", "b", "span", "#text", "#text", "#text", "#text">>,
             << <<2>>, <<3>>, <<4, 6, 7, 8>>, <<5>>, <<>>, <<>>, <<>>, <<>> >>,
             << <<>>, <<>>, <<>>, <<>>, <<"x", "x">>, <<"x">>, <<"x">>, <<"x">> >>)
   EXCEPT !.noframe = {4, 5, 8}, !.hidden = {6}, !.unselectable = {7}]

\* 1 #document, 2 <body>, 3 <table>, 4 <tbody>, 5 <tr>, 6 <td>, 7 <td>, 8 <tr>,
\* 9 "x", 10 <td>, 11 <p>, 12 "x":
\* <table><tbody><tr><td>x</td><td></td></tr><tr><td></td></tr></tbody></table>
\* <p>x</p>
DocTable ==
  PlainTree("table", <<"#document", "body", "table", "tbody", "tr", "td", "td", "tr",
              "#text", "td", "p", "#text">>,
            << <<2>>, <<3, 11>>, <<4>>, <<5, 8>>, <<6, 7>>, <<9>>, <<>>, <<10>>,
               <<>>, <<>>, <<12>>, <<>> >>,
            << <<>>, <<>>, <<>>, <<>>, <<>>, <<>>, <<>>, <<>>, <<"x">>, <<>>,
               <<>>, <<"x">> >>)

\* 1 #document, 2 <body>, 3 <div> (a shadow host), 4 <span>, 5 "x", 6 <p>,
\* 7 "x", 8 the shadow root of 3, 9 <i>, 10 "x", 11 <br>:
\* <body><p>x</p><div>#shadow-root(<i>x</i>)<span>x</span><br></div></body>
DocShadow ==
  [PlainTree("shadow", <<"#document", "body", "div", "span", "#text", "p", "#text",
               "#shadow-root", "i", "#text", "br">>,
             << <<2>>, <<6, 3>>, <<4, 11>>, <<5>>, <<>>, <<7>>, <<>>, <<9>>, <<10>>,
                <<>>, <<>> >>,
             << <<>>, <<>>, <<>>, <<>>, <<"x">>, <<>>, <<"x">>, <<>>, <<>>,
                <<"x">>, <<>> >>)
   EXCEPT !.shadow = [n \in 1..11 |-> IF n = 3 THEN 8 ELSE 0]]

\* 1 #document, 2 <body>, 3 <div contenteditable>, 4 " ", 5 <b>, 6 "x",
\* 7 <br> padding the last line, 8 <p>, 9 " x ":
\* <body><div contenteditable> <b>x</b><br></div><p> x </p></body>
DocEditable ==
  [PlainTree("editable", <<"#document", "body", "div", "#text", "b", "#text", "br", "p",
               "#text">>,
             << <<2>>, <<3, 8>>, <<4, 5, 7>>, <<>>, <<6>>, <<>>, <<>>, <<9>>, <<>> >>,
             << <<>>, <<>>, <<>>, <<"w">>, <<>>, <<"x">>, <<>>, <<>>,
                <<"w", "x", "w">> >>)
   EXCEPT !.editable = {3, 4, 5, 6, 7}, !.padding = {7}]

\* 1 #document, 2 <body>, 3 <textarea>, 4 the <div> of its editor, 5 "xx",
\* 6 <p>, 7 "x":
\* <body><textarea>xx</textarea><p>x</p></body>
DocWidget ==
  PlainTree("widget", <<"#document", "body", "textarea", "div", "#text", "p", "#text">>,
            << <<2>>, <<3, 6>>, <<4>>, <<5>>, <<>>, <<7>>, <<>> >>,
            << <<>>, <<>>, <<>>, <<>>, <<"x", "x">>, <<>>, <<"x">> >>)

\* The same tree where layout finds the <br> to be an invisible break
\* (nsLayoutUtils::IsInvisibleBreak: an editable <br> that ends the last
\* line of its block).
DocBreak == [DocEditable EXCEPT !.name = "break", !.breaks = {7}]

\* The number of characters of the long text nodes.
LongTextLength == 2000

\* 1 #document, 2 <body>, 3 <p>, 4 a text of 2000 characters "x":
\* <body><p>xxx...</p></body>
DocLong ==
  PlainTree("long", <<"#document", "body", "p", "#text">>,
            << <<2>>, <<3>>, <<4>>, <<>> >>,
            << <<>>, <<>>, <<>>, [i \in 1..LongTextLength |-> "x"] >>)

\* The same with a text of two "x", 1000 "e", 3 "s" and "e" up to 2504
\* characters: in UTF-8, after three bytes of markup, its 4092nd byte is
\* the first of an "e".
DocWide ==
  PlainTree("wide", <<"#document", "body", "p", "#text">>,
            << <<2>>, <<3>>, <<4>>, <<>> >>,
            << <<>>, <<>>, <<>>,
               [i \in 1..(LongTextLength + 504) |->
                  IF i <= 2 THEN "x" ELSE IF i \in 1003..1005 THEN "s" ELSE "e"] >>)

\* 1 #document, 2 <body>, 3 <p>, 4 "x", 5 <b>, 6 <sub>, 7 "x", 8 <div>, 9 "x":
\* <body><p>x</p><b><sub>x</sub></b><div>x</div></body>
DocNested ==
  PlainTree("nested", <<"#document", "body", "p", "#text", "b", "sub", "#text", "div",
              "#text">>,
            << <<2>>, <<3, 5, 8>>, <<4>>, <<>>, <<6>>, <<7>>, <<>>, <<9>>, <<>> >>,
            << <<>>, <<>>, <<>>, <<"x">>, <<>>, <<>>, <<"x">>, <<>>, <<"x">> >>)

\* 1 #document, 2 <body>, 3 <template>, 4 the content of 3, 5 <i>, 6 "x",
\* 7 <p>, 8 "x", 9 <template>, 10 the content of 9, which is empty:
\* <body><template><i>x</i><template></template></template><p>x</p></body>
DocTemplate ==
  [PlainTree("template", <<"#document", "body", "template", "#document-fragment", "i",
               "#text", "p", "#text", "template", "#document-fragment">>,
             << <<2>>, <<3, 7>>, <<>>, <<5, 9>>, <<6>>, <<>>, <<8>>, <<>>, <<>>, <<>> >>,
             << <<>>, <<>>, <<>>, <<>>, <<>>, <<"x">>, <<>>, <<"x">>, <<>>, <<>> >>)
   EXCEPT !.content = [n \in 1..10 |-> IF n = 3 THEN 4 ELSE IF n = 9 THEN 10 ELSE 0]]

\* 1 #document, 2 <body>, 3 <div> (a shadow host), 4 the shadow root of 3,
\* 5 <slot>, 6 "x" (what the slot shows when nothing is assigned), 7 <span>
\* (assigned to the slot), 8 "x":
\* <body><div>#shadow-root(<slot>x</slot>)<span>x</span></div></body>
DocSlot ==
  [PlainTree("slot", <<"#document", "body", "div", "#shadow-root", "slot", "#text",
               "span", "#text">>,
             << <<2>>, <<3>>, <<7>>, <<5>>, <<6>>, <<>>, <<8>>, <<>> >>,
             << <<>>, <<>>, <<>>, <<>>, <<>>, <<"x">>, <<>>, <<"x">> >>)
   EXCEPT !.shadow = [n \in 1..8 |-> IF n = 3 THEN 4 ELSE 0],
          !.assigned = [n \in 1..8 |-> IF n = 5 THEN <<7>> ELSE <<>>]]

\* 1 #document, 2 <body>, 3 <p>, 4 <b>, 5 " x ", 6 <i>, 7 "x":
\* <body><p><b> x </b></p><i>x</i></body>
DocSpaces ==
  PlainTree("spaces", <<"#document", "body", "p", "b", "#text", "i", "#text">>,
            << <<2>>, <<3, 6>>, <<4>>, <<5>>, <<>>, <<7>>, <<>> >>,
            << <<>>, <<>>, <<>>, <<>>, <<"w", "x", "w">>, <<>>, <<"x">> >>)

\* 1 #document, 2 <body>, 3 <p>, 4 "xx", 5 <div>, 6 <p>, 7 "xx", 8 <p>, 9 "xx":
\* <body><p>xx</p><div><p>xx</p></div><p>xx</p></body>
DocDepths ==
  PlainTree("depths", <<"#document", "body", "p", "#text", "div", "p", "#text", "p",
              "#text">>,
            << <<2>>, <<3, 5, 8>>, <<4>>, <<>>, <<6>>, <<7>>, <<>>, <<9>>, <<>> >>,
            << <<>>, <<>>, <<>>, <<"x", "x">>, <<>>, <<>>, <<"x", "x">>, <<>>,
               <<"x", "x">> >>)

Docs == [inline |-> DocInline, hidden |-> DocHidden, table |-> DocTable,
         shadow |-> DocShadow, editable |-> DocEditable]

DocIds == DOMAIN Docs

\* The documents, as the values the variable tree takes.
Documents == {Docs[k] : k \in DocIds}

NodesOf(d) == DOMAIN d.tag

(***************************************************************************)
(* nsINode accessors.                                                      *)
(***************************************************************************)
Tag(d, n) == d.tag[n]

IsDocument(d, n) == n # Null /\ Tag(d, n) = "#document"

IsText(d, n) == n # Null /\ Tag(d, n) = "#text"

IsComment(d, n) == n # Null /\ Tag(d, n) = "#comment"

IsShadowRoot(d, n) == n # Null /\ Tag(d, n) = "#shadow-root"

IsElement(d, n) ==
  n # Null /\ Tag(d, n) \notin {"#document", "#text", "#comment", "#shadow-root",
                                "#document-fragment"}

\* nsINode::IsDocumentFragment: a shadow root is a document fragment too.
IsDocumentFragment(d, n) ==
  n # Null /\ Tag(d, n) \in {"#shadow-root", "#document-fragment"}

\* nsIContent::FromNodeOrNull: every node but the document is content.
IsContent(d, n) == n # Null /\ ~IsDocument(d, n)

IsHTMLElement(d, n, name) == n # Null /\ Tag(d, n) = name

Children(d, n) == d.kids[n]

GetChildCount(d, n) == Len(Children(d, n))

HasChildNodes(d, n) == Children(d, n) # <<>>

\* GetParentNode: a shadow root has no parent node, only a host.
GetParentNode(d, n) == IF n = Null THEN Null ELSE d.parent[n]

\* nsIContent::GetParent: the parent, when it is content.
GetParent(d, n) ==
  LET p == GetParentNode(d, n) IN IF IsContent(d, p) THEN p ELSE Null

\* ComputeIndexOf: the index of a child in its parent, counted from 0.
ComputeIndexOf(d, p, n) ==
  (CHOOSE i \in DOMAIN Children(d, p) : Children(d, p)[i] = n) - 1

\* GetChildAt_Deprecated: the child at an index counted from 0, or nullptr.
GetChildAt(d, n, i) ==
  IF i + 1 \in DOMAIN Children(d, n) THEN Children(d, n)[i + 1] ELSE Null

GetNextSibling(d, n) ==
  LET p == GetParentNode(d, n)
  IN IF p = Null THEN Null ELSE GetChildAt(d, p, ComputeIndexOf(d, p, n) + 1)

GetPreviousSibling(d, n) ==
  LET p == GetParentNode(d, n)
  IN IF p = Null THEN Null ELSE GetChildAt(d, p, ComputeIndexOf(d, p, n) - 1)

\* The length of a node as a range container.
LengthOf(d, n) == IF IsText(d, n) THEN Len(d.text[n]) ELSE GetChildCount(d, n)

\* DocumentFragment::GetHost: the host of a shadow root, the <template> of
\* a template's content.
GetHost(d, n) ==
  IF \E h \in NodesOf(d) : d.shadow[h] = n \/ d.content[h] = n
    THEN CHOOSE h \in NodesOf(d) : d.shadow[h] = n \/ d.content[h] = n
    ELSE Null

\* nsINode::GetFirstChildOfTemplateOrNode: the first child of the content of
\* a <template>, the first child of any other node.
GetFirstChildOfTemplateOrNode(d, n) ==
  IF IsHTMLElement(d, n, "template") /\ d.content[n] # Null
    THEN GetChildAt(d, d.content[n], 0)
    ELSE GetChildAt(d, n, 0)

RECURSIVE InclusiveAncestorsOf(_, _)
\* nsContentUtils::GetInclusiveAncestors: the node first, then its ancestors
\* up to the root (the document included).
InclusiveAncestorsOf(d, n) ==
  IF n = Null THEN <<>> ELSE <<n>> \o InclusiveAncestorsOf(d, GetParentNode(d, n))

SeqToSet(s) == {s[i] : i \in DOMAIN s}

RECURSIVE Reverse(_)
Reverse(s) == IF s = <<>> THEN <<>> ELSE Append(Reverse(Tail(s)), Head(s))

\* The inclusive descendants of a node in the light tree.
Subtree(d, n) == {m \in NodesOf(d) : n \in SeqToSet(InclusiveAncestorsOf(d, m))}

(***************************************************************************)
(* The encoder.  tree is the document the caller works on; isCopy tells    *)
(* whether the encoder is an nsHTMLCopyEncoder; the m* variables are the   *)
(* members of nsDocumentEncoder and of nsHTMLCopyEncoder; ret is the last  *)
(* call, its result and what the content serializer received during it.    *)
(***************************************************************************)
VARIABLES tree, isCopy, mDocument, mFlags, mEncodingScope,
          mRangeContextSerializer, mRangeSerializer, mIsTextWidget, ret,
          mMimeType, mEncoding, mSerializer, mTextStreamer, mCachedBuffer

vars == <<tree, isCopy, mDocument, mFlags, mEncodingScope,
          mRangeContextSerializer, mRangeSerializer, mIsTextWidget, ret,
          mMimeType, mEncoding, mSerializer, mTextStreamer, mCachedBuffer>>

\* The members of the encoder that choose the serializer and the bytes, and
\* the string buffer it keeps for its next call.
outputVars == <<mMimeType, mEncoding, mSerializer, mTextStreamer, mCachedBuffer>>

\* nullptr in a member or an argument whose other values are not nodes.
nullptr == "nullptr"

kTextMime == "text/plain"

kHTMLMime == "text/html"

\* Maybe<TextStreamer> without a value.
Nothing == [isSome |-> FALSE]

\* A StringBuffer is [storage, refs]: the size of its storage in bytes and
\* its reference count.  A RefPtr<StringBuffer> that is null:
NoStringBuffer == [storage |-> 0, refs |-> 0]

\* static const size_t kStringBufferSizeInBytes
kStringBufferSizeInBytes == 2048

\* StringBuffer::Alloc: a new buffer, held by the caller alone.
Alloc(aStorageSize) == [storage |-> aStorageSize, refs |-> 1]

\* StringBuffer::IsReadonly: somebody else holds the buffer too.
IsReadonly(aBuffer) == aBuffer.refs > 1

\* The members above in an encoder that was initialized for HTML and has
\* not encoded yet.
InitializedForHTML ==
  /\ mMimeType = kHTMLMime
  /\ mEncoding = nullptr
  /\ mSerializer = nullptr
  /\ mTextStreamer = Nothing
  /\ mCachedBuffer = NoStringBuffer

\* The flags of nsIDocumentEncoder the model knows.
SkipInvisibleContent == "SkipInvisibleContent"

AllowCrossShadowBoundary == "AllowCrossShadowBoundary"

OutputPreformatted == "OutputPreformatted"

OutputDropInvisibleBreak == "OutputDropInvisibleBreak"

RequiresReinitAfterOutput == "RequiresReinitAfterOutput"

NS_OK == "NS_OK"

NS_ERROR_FAILURE == "NS_ERROR_FAILURE"

NS_ERROR_NULL_POINTER == "NS_ERROR_NULL_POINTER"

NS_ERROR_NOT_INITIALIZED == "NS_ERROR_NOT_INITIALIZED"

NS_ERROR_UNEXPECTED == "NS_ERROR_UNEXPECTED"

NS_ERROR_NOT_IMPLEMENTED == "NS_ERROR_NOT_IMPLEMENTED"

NS_ERROR_UCONV_NOCONV == "NS_ERROR_UCONV_NOCONV"

\* GetAllowRangeCrossShadowBoundary(mFlags) == AllowRangeCrossShadowBoundary::Yes
AllowCross == AllowCrossShadowBoundary \in mFlags

\* ShadowDOMSelectionHelpers::GetShadowRoot: the shadow root of a host, when
\* ranges may cross shadow boundaries.
GetShadowRoot(n, allow) == IF allow /\ n # Null THEN tree.shadow[n] ELSE Null

IsInvisibleNodeAndShouldBeSkipped(n) ==
  IF SkipInvisibleContent \in mFlags
    THEN Let(IF IsShadowRoot(tree, n) THEN GetHost(tree, n) ELSE n,
             LAMBDA node :
               IF IsContent(tree, node)
                 THEN IF node \in tree.noframe
                        THEN IF IsElement(tree, node) /\ node \in tree.contents
                               THEN FALSE
                               ELSE IF IsText(tree, node)
                                      THEN FALSE
                                      ELSE IF IsHTMLElement(tree, node, "rp")
                                             THEN FALSE
                                             ELSE TRUE
                        ELSE IsText(tree, node) /\ node \in tree.hidden
                 ELSE FALSE)
    ELSE FALSE

(***************************************************************************)
(* The content serializer.  A walk threads a record w through its calls:   *)
(* w.ser is the serializer (the events it accepted, the number of calls    *)
(* made, and which call fails), w.rv the nsresult of the call that just    *)
(* returned, w.crashed whether a release assertion failed, w.rcs and w.rs  *)
(* the range context serializer and the range serializer, w.ts the text    *)
(* streamer.                                                               *)
(***************************************************************************)
Event(op, n, s, e) == [op |-> op, node |-> n, s |-> s, e |-> e]

\* One call of an Append* method of nsIContentSerializer.
Emit(w, ev) ==
  IF w.ser.calls + 1 = w.ser.failAt
    THEN [w EXCEPT !.ser.calls = @ + 1, !.rv = NS_ERROR_FAILURE]
    ELSE [w EXCEPT !.ser.calls = @ + 1, !.ser.log = Append(@, ev), !.rv = NS_OK]

Return(w, rv) == [w EXCEPT !.rv = rv]

Succeeded(w) == w.rv = NS_OK

\* NS_ENSURE_SUCCESS(rv, rv) after the call that gave w: the rest of the
\* function runs on a success, a failure is returned as it is.
EnsureSuccess(w, Rest(_)) == IF Succeeded(w) THEN Rest(w) ELSE w

\* Whether the serializer failed a call of the pass.
SerializerFailed(w) == w.ser.failAt # 0 /\ w.ser.calls >= w.ser.failAt

(***************************************************************************)
(* Text.  The text the serializer produces, and the text of the buffer of  *)
(* a TextStreamer, is a sequence of runs [c, n]: n code units of the kind  *)
(* c, no run empty and no two neighbours of one kind.  The kinds are "x"   *)
(* and "w" (the ASCII characters of the trees), "<" (markup, ASCII), "e"   *)
(* (a letter with an accent) and "s" (a snowman, outside windows-1252).    *)
(***************************************************************************)
Run(c, n) == [c |-> c, n |-> n]

\* nsAString::Append of the run r.
AppendRun(t, r) ==
  IF r.n = 0 THEN t
  ELSE IF t # <<>> /\ t[Len(t)].c = r.c
    THEN [t EXCEPT ![Len(t)].n = @ + r.n]
    ELSE Append(t, r)

RECURSIVE AppendText(_, _)
\* nsAString::Append
AppendText(t, u) ==
  IF u = <<>> THEN t ELSE AppendText(AppendRun(t, Head(u)), Tail(u))

RECURSIVE TextLength(_)
\* nsAString::Length
TextLength(t) == IF t = <<>> THEN 0 ELSE Head(t).n + TextLength(Tail(t))

\* The text from the second code unit on (Span::From(1)).
AfterFirstUnit(t) ==
  IF Head(t).n = 1 THEN Tail(t) ELSE <<Run(Head(t).c, Head(t).n - 1)>> \o Tail(t)

\* The text from the k-th code unit of its first run on.
AfterUnitsOfFirstRun(t, k) ==
  IF k = Head(t).n THEN Tail(t) ELSE <<Run(Head(t).c, Head(t).n - k)>> \o Tail(t)

\* The positions of chars after s and up to e where a run starts.
RunStarts(chars, s, e) == {i \in (s + 1)..e : i = s + 1 \/ chars[i] # chars[i - 1]}

\* The k-th smallest element of a set of numbers.
Nth(S, k) == CHOOSE i \in S : Cardinality({j \in S : j < i}) = k - 1

\* The end of the run that starts at i.
RunEnd(starts, i, e) == IF \E j \in starts : j > i THEN Nth({j \in starts : j > i}, 1) - 1 ELSE e

\* The run of chars that starts at i.
RunAt(chars, starts, i, e) == Run(chars[i], RunEnd(starts, i, e) - i + 1)

\* The runs of chars that start at starts and end by e.
RunsFrom(chars, starts, e) ==
  [k \in 1..Cardinality(starts) |-> RunAt(chars, starts, Nth(starts, k), e)]

\* The characters s+1..e of a sequence of characters, as runs.
TextRuns(chars, s, e) == RunsFrom(chars, RunStarts(chars, s, e), e)

(***************************************************************************)
(* mozilla::Encoder.  The bytes of an encoded code unit are named by their *)
(* hexadecimal digits; a chunk of bytes is a sequence of runs of them.     *)
(***************************************************************************)
Encodings == {"UTF-8", "windows-1252"}

\* Whether the encoding has no bytes for the character.
IsUnmappable(enc, c) == enc = "windows-1252" /\ c = "s"

\* The bytes of a character the encoding maps.
BytesOf(enc, c) ==
  CASE c = "x" -> "78"
    [] c = "w" -> "20"
    [] c = "<" -> "3c"
    [] c = "e" -> IF enc = "UTF-8" THEN "c3a9" ELSE "e9"
    [] c = "s" -> "e29883"

\* The numeric character reference EncodeFromUTF16 writes for a character
\* the encoding does not map: &#9731;
CharacterReference == "2623393733313b"

\* The byte '?' EncodeAndWrite writes for such a character of plain text.
QuestionMark == "3f"

\* The number of bytes named by a string of hexadecimal digits.
ByteCount(hex) ==
  CASE hex \in {"78", "20", "3c", "e9", "3f"} -> 1
    [] hex = "c3a9" -> 2
    [] hex = "e29883" -> 3
    [] hex = CharacterReference -> 7

RECURSIVE ChunkLength(_)
\* The number of bytes of a chunk.
ChunkLength(chunk) ==
  IF chunk = <<>> THEN 0
  ELSE Head(chunk).n * ByteCount(Head(chunk).c) + ChunkLength(Tail(chunk))

kInputEmpty == "kInputEmpty"

kOutputFull == "kOutputFull"

\* The result of EncodeFromUTF16WithoutReplacement at an unmappable character.
kUnmappable == "Unmappable"

\* The bytes of a character as EncodeFromUTF16 writes them.
ReplacedBytesOf(enc, c) ==
  IF IsUnmappable(enc, c) THEN CharacterReference ELSE BytesOf(enc, c)

\* What an encoding call returns: its result, the text it has not read and
\* the bytes it wrote.
EncodeResult(result, src, written) == [result |-> result, src |-> src, written |-> written]

\* The code units of the first run for which dst has room.
UnitsThatFit(src, hex, room) ==
  IF Head(src).n * ByteCount(hex) <= room THEN Head(src).n ELSE room \div ByteCount(hex)

RECURSIVE EncodeFromUTF16(_, _, _, _)
\* Encoder::EncodeFromUTF16(src, dst, false): reads code units while their
\* bytes fit in dst; room is what is left of dst.
EncodeFromUTF16(enc, src, written, room) ==
  IF src = <<>> THEN EncodeResult(kInputEmpty, src, written)
  ELSE IF UnitsThatFit(src, ReplacedBytesOf(enc, Head(src).c), room) < Head(src).n
    THEN EncodeResult(kOutputFull,
                 IF UnitsThatFit(src, ReplacedBytesOf(enc, Head(src).c), room) = 0 THEN src
                 ELSE AfterUnitsOfFirstRun(
                        src, UnitsThatFit(src, ReplacedBytesOf(enc, Head(src).c), room)),
                 AppendRun(written,
                           Run(ReplacedBytesOf(enc, Head(src).c),
                               UnitsThatFit(src, ReplacedBytesOf(enc, Head(src).c), room))))
    ELSE EncodeFromUTF16(
           enc, Tail(src),
           AppendRun(written, Run(ReplacedBytesOf(enc, Head(src).c), Head(src).n)),
           room - Head(src).n * ByteCount(ReplacedBytesOf(enc, Head(src).c)))

RECURSIVE EncodeFromUTF16WithoutReplacement(_, _, _, _)
\* Encoder::EncodeFromUTF16WithoutReplacement(src, dst, false): as above,
\* but it returns at a character the encoding does not map, having read it;
\* it looks at the character only when dst has room for a byte.
EncodeFromUTF16WithoutReplacement(enc, src, written, room) ==
  IF src = <<>> THEN EncodeResult(kInputEmpty, src, written)
  ELSE IF IsUnmappable(enc, Head(src).c)
    THEN IF room < 1 THEN EncodeResult(kOutputFull, src, written)
         ELSE EncodeResult(kUnmappable, AfterFirstUnit(src), written)
    ELSE IF UnitsThatFit(src, BytesOf(enc, Head(src).c), room) < Head(src).n
      THEN EncodeResult(kOutputFull,
                   IF UnitsThatFit(src, BytesOf(enc, Head(src).c), room) = 0 THEN src
                   ELSE AfterUnitsOfFirstRun(
                          src, UnitsThatFit(src, BytesOf(enc, Head(src).c), room)),
                   AppendRun(written,
                             Run(BytesOf(enc, Head(src).c),
                                 UnitsThatFit(src, BytesOf(enc, Head(src).c), room))))
      ELSE EncodeFromUTF16WithoutReplacement(
             enc, Tail(src),
             AppendRun(written, Run(BytesOf(enc, Head(src).c), Head(src).n)),
             room - Head(src).n * ByteCount(BytesOf(enc, Head(src).c)))

(***************************************************************************)
(* TextStreamer.  A streamer is a record of its members; mOutputBuffer is  *)
(* the text of the string the streamer refers to, and dangling tells that  *)
(* the string is gone.  mStream is the sink: the chunks its Write was      *)
(* given, the number of calls, and the call from which on it fails.        *)
(***************************************************************************)
kMaxLengthBeforeFlush == 1024

kEncoderBufferSizeInBytes == 4096

\* The call from which on the sink fails; 0 for a sink that never fails.
MaxWriteFailAt == 2

\* A sink that has been given nothing.
NewStream(failAt) == [writes |-> <<>>, calls |-> 0, failAt |-> failAt]

\* nullptr where a sink is expected.
NullStream == [isNull |-> TRUE]

\* Whether the call of Write the sink has just received failed.
WriteFailed(stream) == stream.failAt # 0 /\ stream.calls >= stream.failAt

\* nsIOutputStream::Write
Write(stream, chunk) == [stream EXCEPT !.calls = @ + 1, !.writes = Append(@, chunk)]

\* TextStreamer::TextStreamer
TextStreamer(aStream, aUnicodeEncoder, aIsPlainText, aOutputBuffer) ==
  [isSome |-> TRUE, mStream |-> aStream, mUnicodeEncoder |-> aUnicodeEncoder,
   mIsPlainText |-> aIsPlainText, mOutputBuffer |-> aOutputBuffer, dangling |-> FALSE]

\* What a method of the streamer leaves and returns.
Flushed(ts, rv) == [ts |-> ts, rv |-> rv]

\* The encoding call of one turn of the loop of EncodeAndWrite.
EncodeChunk(ts, src) ==
  IF ts.mIsPlainText
    THEN EncodeFromUTF16WithoutReplacement(ts.mUnicodeEncoder, src, <<>>,
                                           kEncoderBufferSizeInBytes - 1)
    ELSE EncodeFromUTF16(ts.mUnicodeEncoder, src, <<>>, kEncoderBufferSizeInBytes - 1)

\* The chunk without the '?'.
ChunkToWrite_NoQuestionMark(ts, enc) == enc.written

\* The bytes one turn of the loop hands to Write: dst[written++] = '?'
\* after a character the encoding does not map.
ChunkToWrite(ts, enc) ==
  IF ts.mIsPlainText /\ enc.result \notin {kInputEmpty, kOutputFull}
    THEN AppendRun(enc.written, Run(QuestionMark, 1))
    ELSE enc.written

RECURSIVE EncodeAndWriteFrom(_, _)
\* The loop of TextStreamer::EncodeAndWrite with src still to encode.
EncodeAndWriteFrom(ts, src) ==
  Let(EncodeChunk(ts, src), LAMBDA enc :
    Let([ts EXCEPT !.mStream = Write(@, ChunkToWrite(ts, enc))], LAMBDA ts1 :
      IF WriteFailed(ts1.mStream) THEN Flushed(ts1, NS_ERROR_FAILURE)
      ELSE IF enc.result = kInputEmpty THEN Flushed(ts1, NS_OK)
      ELSE EncodeAndWriteFrom(ts1, enc.src)))

\* TextStreamer::EncodeAndWrite
EncodeAndWrite(ts) ==
  IF ts.mOutputBuffer = <<>> THEN Flushed(ts, NS_OK)
  ELSE EncodeAndWriteFrom(ts, ts.mOutputBuffer)

\* mOutputBuffer.Truncate() after the call that gave f.
Truncated(f) == [f EXCEPT !.ts.mOutputBuffer = <<>>]

\* TextStreamer::EncodeAndWriteAndTruncate
EncodeAndWriteAndTruncate(ts) == Truncated(EncodeAndWrite(ts))

\* FlushIfStringLongEnough that flushes a buffer of exactly
\* kMaxLengthBeforeFlush code units too.
FlushIfStringLongEnough_AtThreshold(ts) ==
  IF TextLength(ts.mOutputBuffer) >= kMaxLengthBeforeFlush
    THEN EncodeAndWriteAndTruncate(ts)
    ELSE Flushed(ts, NS_OK)

\* TextStreamer::FlushIfStringLongEnough
FlushIfStringLongEnough(ts) ==
  IF TextLength(ts.mOutputBuffer) > kMaxLengthBeforeFlush
    THEN EncodeAndWriteAndTruncate(ts)
    ELSE Flushed(ts, NS_OK)

\* TextStreamer::ForceFlush
ForceFlush(ts) == EncodeAndWriteAndTruncate(ts)

\* nsLayoutUtils::IsInvisibleBreak
IsInvisibleBreak(n) == n \in tree.breaks

SerializeNodeStart(w, n, aStartOffset, aEndOffset) ==
  IF IsInvisibleNodeAndShouldBeSkipped(n)
    THEN Return(w, NS_OK)
    ELSE IF IsElement(tree, n)
           THEN IF mFlags \cap {OutputPreformatted, OutputDropInvisibleBreak} # {}
                   /\ IsInvisibleBreak(n)
                  THEN Return(w, NS_OK)
                  ELSE Emit(w, Event("start", n, 0, 0))
           ELSE IF IsText(tree, n)
                  THEN Emit(w, Event("text", n, aStartOffset, aEndOffset))
                  ELSE IF IsComment(tree, n)
                         THEN Emit(w, Event("comment", n, aStartOffset, aEndOffset))
                         ELSE Return(w, NS_OK)

SerializeNodeEnd(w, n) ==
  IF IsInvisibleNodeAndShouldBeSkipped(n)
    THEN Return(w, NS_OK)
    ELSE IF IsElement(tree, n)
           THEN Emit(w, Event("end", n, 0, 0))
           ELSE Return(w, NS_OK)

\* The end of the characters an AppendText with aEndOffset takes from a
\* text of aLength characters: all of them for -1, else no more than the
\* text has.
EndOffsetIn(aEndOffset, aLength) ==
  IF aEndOffset = -1 THEN aLength
  ELSE IF aEndOffset < aLength THEN aEndOffset ELSE aLength

\* The number of characters a text event stands for: none when the end is
\* not after the start.
EventLength(ev) ==
  IF ev.op = "text"
    THEN IF EndOffsetIn(ev.e, Len(tree.text[ev.node])) > ev.s
           THEN EndOffsetIn(ev.e, Len(tree.text[ev.node])) - ev.s
           ELSE 0
    ELSE 1

RECURSIVE SumLengths(_)
SumLengths(log) ==
  IF log = <<>> THEN 0 ELSE EventLength(Head(log)) + SumLengths(Tail(log))

\* nsIContentSerializer::GetOutputLength
GetOutputLength(w) == SumLengths(w.ser.log)

\* The nodes the GetNextNode lambda of SerializeToStringRecursive yields.
NodesToIterate(n) ==
  IF AllowCross /\ IsHTMLElement(tree, n, "slot")
    THEN tree.assigned[n]
    ELSE IF GetFirstChildOfTemplateOrNode(tree, n) = Null THEN <<>>
    ELSE Children(tree, GetParentNode(tree, GetFirstChildOfTemplateOrNode(tree, n)))

\* A uint32_t is kept as the int32_t of the same bits: the values from 2^31
\* on are the negative numbers.
INT32_MAX == 2147483647

INT32_MIN == -INT32_MAX - 1

UINT32_MAX == -1

\* outputLength >= aMaxLength for two uint32_t, the first below 2^31.
AtLeast(outputLength, aMaxLength) == aMaxLength >= 0 /\ outputLength >= aMaxLength

\* int32_t endOffset = aMaxLength - outputLength, with outputLength below
\* 2^31: the difference of the two uint32_t, then the int32_t of its bits.
EndOffsetFor(aMaxLength, outputLength) ==
  IF aMaxLength >= INT32_MIN + outputLength
    THEN aMaxLength - outputLength
    ELSE (aMaxLength - INT32_MIN) + (INT32_MAX - outputLength) + 1

RECURSIVE SerializeToStringRecursive(_, _, _, _)
RECURSIVE SerializeChildrenRecursive(_, _, _, _)
\* The for loop over the children in SerializeToStringRecursive, from the
\* i-th node of kids on.
SerializeChildrenRecursive(w, kids, i, aMaxLength) ==
  IF i > Len(kids)
    THEN w
    ELSE EnsureSuccess(SerializeToStringRecursive(w, kids[i], TRUE, aMaxLength),
                       LAMBDA w1 : SerializeChildrenRecursive(w1, kids, i + 1, aMaxLength))

\* if (aSerializeRoot == SerializeRoot::eYes) and what precedes it: whether
\* the root is serialized, an unselectable root being left out.
MaybeSerializeRoot(aNode, aSerializeRoot) ==
  IF SkipInvisibleContent \in mFlags /\ IsContent(tree, aNode)
     /\ aNode \notin tree.noframe /\ aNode \in tree.unselectable
    THEN FALSE
    ELSE aSerializeRoot

\* A call whose nsresult is not looked at: the walk goes on with rv.
DropResult(w, rv) == IF w.crashed THEN w ELSE Return(w, rv)

\* mOutputBuffer.Length() and what follows it in FlushIfStringLongEnough
\* when the string the streamer refers to is gone.
FlushAfterScope(w) ==
  CASE w.ub = "short" -> Return(w, NS_OK)
    [] w.ub = "long" ->
         Let([w EXCEPT !.ts.mStream = Write(@, <<Run("garbage", 1)>>)], LAMBDA w1 :
           Return(w1, IF WriteFailed(w1.ts.mStream) THEN NS_ERROR_FAILURE ELSE NS_OK))
    [] w.ub = "crash" -> [w EXCEPT !.crashed = TRUE, !.rv = "CRASH"]

\* if (mTextStreamer) rv = mTextStreamer->FlushIfStringLongEnough();
FlushTextStreamer(w) ==
  IF ~w.ts.isSome THEN w
  ELSE IF w.ts.dangling THEN FlushAfterScope(w)
  ELSE Let(FlushIfStringLongEnough(w.ts), LAMBDA f : [w EXCEPT !.ts = f.ts, !.rv = f.rv])

\* The walk below a node: its shadow root, whose nsresult is dropped, or
\* else its children.
SerializeBelow(w1, aNode, shadowRoot, serializeRoot, aMaxLength) ==
  IF shadowRoot # Null
    THEN DropResult(SerializeToStringRecursive(w1, shadowRoot, serializeRoot, aMaxLength),
                    w1.rv)
    ELSE SerializeChildrenRecursive(w1, NodesToIterate(aNode), 1, aMaxLength)

SerializeToStringRecursive(w, aNode, aSerializeRoot, aMaxLength) ==
  Let(GetOutputLength(w), LAMBDA outputLength :
    IF aMaxLength # 0 /\ AtLeast(outputLength, aMaxLength)
      THEN Return(w, NS_OK)
      ELSE IF aNode = Null
        THEN Return(w, NS_ERROR_NULL_POINTER)
        ELSE IF IsInvisibleNodeAndShouldBeSkipped(aNode)
          THEN Return(w, NS_OK)
          ELSE
            Let(MaybeSerializeRoot(aNode, aSerializeRoot), LAMBDA serializeRoot :
              EnsureSuccess(
                IF serializeRoot
                  THEN SerializeNodeStart(
                         w, aNode, 0,
                         IF aMaxLength # 0 THEN EndOffsetFor(aMaxLength, outputLength)
                         ELSE -1)
                  ELSE Return(w, NS_OK),
                LAMBDA w1 :
                  EnsureSuccess(
                    SerializeBelow(w1, aNode, GetShadowRoot(aNode, AllowCross),
                                   serializeRoot, aMaxLength),
                    LAMBDA w3 :
                      EnsureSuccess(
                        IF serializeRoot THEN SerializeNodeEnd(w3, aNode) ELSE w3,
                        LAMBDA w4 : FlushTextStreamer(w4))))))

\* NodeSerializer::SerializeTextNode
\* SerializeTextNode that loses the offsets and hands over the whole text.
SerializeTextNode_WholeText(w, n, aStartOffset, aEndOffset) ==
  EnsureSuccess(SerializeNodeStart(w, n, 0, -1),
                LAMBDA w1 : SerializeNodeEnd(w1, n))

SerializeTextNode(w, n, aStartOffset, aEndOffset) ==
  EnsureSuccess(SerializeNodeStart(w, n, aStartOffset, aEndOffset),
                LAMBDA w1 : SerializeNodeEnd(w1, n))

(***************************************************************************)
(* Ranges.  A range is [sc, so, ec, eo]: its start and end containers and  *)
(* offsets; the ranges of the model never hold a cross-shadow-boundary     *)
(* range, so MayCrossShadowBoundary() is false and the                     *)
(* ShadowDOMSelectionHelpers getters return these four fields.             *)
(***************************************************************************)
RECURSIVE PathOf(_, _)
\* The child indexes that lead from the root of a node's tree to the node.
PathOf(d, n) ==
  LET p == GetParentNode(d, n)
  IN IF p = Null THEN <<>> ELSE Append(PathOf(d, p), ComputeIndexOf(d, p, n))

RootOf(d, n) == LET a == InclusiveAncestorsOf(d, n) IN a[Len(a)]

RECURSIVE PathBefore(_, _)
\* Tree order of two boundary points given as paths; a prefix comes first.
PathBefore(p, q) ==
  IF p = <<>> THEN TRUE
  ELSE IF q = <<>> THEN FALSE
  ELSE IF Head(p) # Head(q) THEN Head(p) < Head(q)
  ELSE PathBefore(Tail(p), Tail(q))

PointPath(d, c, o) == Append(PathOf(d, c), o)

\* nsRange::IsValidPoints for points of one tree, and start not after end.
IsRange(d, r) ==
  /\ r.sc \in NodesOf(d) /\ r.ec \in NodesOf(d)
  /\ r.so \in 0..LengthOf(d, r.sc) /\ r.eo \in 0..LengthOf(d, r.ec)
  /\ RootOf(d, r.sc) = RootOf(d, r.ec)
  /\ PathBefore(PointPath(d, r.sc, r.so), PointPath(d, r.ec, r.eo))

\* The boundary points of a tree.
PointsOf(d) == UNION {{<<n, o>> : o \in 0..LengthOf(d, n)} : n \in NodesOf(d)}

RangesOf ==
  [k \in DocIds |->
    {r \in {[sc |-> p[1][1], so |-> p[1][2], ec |-> p[2][1], eo |-> p[2][2]] :
              p \in PointsOf(Docs[k]) \X PointsOf(Docs[k])} : IsRange(Docs[k], r)}]

Collapsed(r) == r.sc = r.ec /\ r.so = r.eo

\* The first node of the sequence a that is in the set b.
FirstIn(a, b) ==
  a[CHOOSE i \in DOMAIN a : a[i] \in b /\ \A j \in 1..(i - 1) : a[j] \notin b]

\* nsRange::GetClosestCommonInclusiveAncestor
GetClosestCommonInclusiveAncestor(r) ==
  FirstIn(InclusiveAncestorsOf(tree, r.sc), SeqToSet(InclusiveAncestorsOf(tree, r.ec)))

RECURSIVE AncestorsAndOffsets(_, _)
\* The loop of nsContentUtils::GetInclusiveAncestorsAndOffsets from a child
\* on: each content parent with the index of the child in it.
AncestorsAndOffsets(child, acc) ==
  Let(GetParent(tree, child), LAMBDA parent :
    IF parent = Null THEN acc
    ELSE AncestorsAndOffsets(parent,
           [nodes   |-> Append(acc.nodes, parent),
            offsets |-> Append(acc.offsets, ComputeIndexOf(tree, parent, child))]))

\* nsContentUtils::GetInclusiveAncestorsAndOffsets: nothing when the
\* container is not content.
GetInclusiveAncestorsAndOffsets(aNode, aOffset) ==
  IF ~IsContent(tree, aNode)
    THEN [nodes |-> <<>>, offsets |-> <<>>]
    ELSE AncestorsAndOffsets(aNode, [nodes |-> <<aNode>>, offsets |-> <<aOffset>>])

\* nsTArray::IndexOf, counted from 0; NoIndex read as an int32_t is -1.
IndexOf(arr, x) ==
  IF \E i \in DOMAIN arr : arr[i] = x
    THEN (CHOOSE i \in DOMAIN arr : arr[i] = x /\ \A j \in 1..(i - 1) : arr[j] # x) - 1
    ELSE -1

(***************************************************************************)
(* RangeNodeContext, of nsDocumentEncoder and of nsHTMLCopyEncoder.        *)
(***************************************************************************)
ContextTags ==
  {"b", "i", "u", "a", "tt", "s", "big", "small", "strike", "em", "strong",
   "dfn", "code", "cite", "var", "abbr", "font", "script", "span", "pre",
   "h1", "h2", "h3", "h4", "h5", "h6"}

\* Element::IsEditingHost: editable, with a parent that is not.
IsEditingHost(n) ==
  /\ IsElement(tree, n) /\ n \in tree.editable
  /\ GetParentNode(tree, n) \notin tree.editable

IncludeInContext(n) ==
  IF ~isCopy THEN FALSE
  ELSE IF ~IsContent(tree, n) THEN FALSE
  ELSE IF IsEditingHost(n) THEN FALSE
  ELSE Tag(tree, n) \in ContextTags

RECURSIVE CountTableAncestors(_, _)
CountTableAncestors(arr, j) ==
  IF j < Len(arr) /\ arr[j + 1] # Null /\ IsContent(tree, arr[j + 1])
     /\ Tag(tree, arr[j + 1]) \in {"tr", "thead", "tbody", "tfoot", "table"}
    THEN CountTableAncestors(arr, j + 1)
    ELSE j

GetImmediateContextCount(aAncestorArray) ==
  IF ~isCopy THEN -1 ELSE CountTableAncestors(aAncestorArray, 0)

(***************************************************************************)
(* RangeContextSerializer.  w.hist records its calls that were not         *)
(* suppressed: a Start with the list it pushed, an End with the list it    *)
(* popped and the nodes whose end it serialized.                           *)
(***************************************************************************)
\* serializedContext->AppendElement(node), on the last list of mRangeContexts.
AppendToContext(w, node) ==
  [w EXCEPT !.rcs.mRangeContexts[Len(w.rcs.mRangeContexts)] = Append(@, node)]

RECURSIVE ContextStartLoop(_, _, _, _)
\* The while loop of SerializeRangeContextStart.
ContextStartLoop(w, aAncestorArray, i, j) ==
  IF i = 0 THEN w
  ELSE IF aAncestorArray[i] = Null THEN w
  ELSE IF IncludeInContext(aAncestorArray[i]) \/ (i - 1) < j
    THEN EnsureSuccess(
           AppendToContext(SerializeNodeStart(w, aAncestorArray[i], 0, -1),
                           aAncestorArray[i]),
           LAMBDA w2 : ContextStartLoop(w2, aAncestorArray, i - 1, j))
    ELSE ContextStartLoop(w, aAncestorArray, i - 1, j)

\* What the call history keeps of a Start that was not suppressed: the
\* list it pushed.
StartRecorded(w, w1) ==
  [w1 EXCEPT !.hist = Append(@, [call  |-> "Start",
                                 at    |-> Len(w.ser.log),
                                 upto  |-> Len(w1.ser.log),
                                 depth |-> Len(w1.rcs.mRangeContexts),
                                 nodes |-> w1.rcs.mRangeContexts[Len(w1.rcs.mRangeContexts)],
                                 ended |-> <<>>,
                                 rv    |-> w1.rv])]

SerializeRangeContextStart(w, aAncestorArray) ==
  IF w.rcs.mDisableContextSerialize
    THEN Return(w, NS_OK)
    ELSE StartRecorded(
           w,
           ContextStartLoop(
             [w EXCEPT !.rcs.mRangeContexts = Append(@, <<>>), !.rv = NS_OK],
             aAncestorArray, Len(aAncestorArray),
             GetImmediateContextCount(aAncestorArray)))

RECURSIVE ContextEndLoop(_, _, _)
\* The for loop of SerializeRangeContextEnd over Reversed(serializedContext).
ContextEndLoop(w, nodes, ended) ==
  IF nodes = <<>> THEN [w |-> w, ended |-> ended]
  ELSE Let(SerializeNodeEnd(w, nodes[Len(nodes)]), LAMBDA w1 :
         IF ~Succeeded(w1) THEN [w |-> w1, ended |-> ended]
         ELSE ContextEndLoop(w1, SubSeq(nodes, 1, Len(nodes) - 1),
                             Append(ended, nodes[Len(nodes)])))

\* What the call history keeps of an End that was not suppressed: the list
\* it popped and the nodes whose end it serialized.  l is the outcome of
\* the loop.
EndRecorded(w, l) ==
  [l.w EXCEPT !.rcs.mRangeContexts = SubSeq(@, 1, Len(@) - 1),
              !.hist = Append(@, [call  |-> "End",
                                  at    |-> Len(w.ser.log),
                                  depth |-> Len(w.rcs.mRangeContexts),
                                  nodes |-> w.rcs.mRangeContexts[Len(w.rcs.mRangeContexts)],
                                  ended |-> l.ended,
                                  rv    |-> l.w.rv])]

SerializeRangeContextEnd(w) ==
  IF w.rcs.mDisableContextSerialize
    THEN Return(w, NS_OK)
    ELSE IF w.rcs.mRangeContexts = <<>>
      \* MOZ_RELEASE_ASSERT(!mRangeContexts.IsEmpty())
      THEN [w EXCEPT !.crashed = TRUE, !.rv = "CRASH",
                     !.hist = Append(@, [call |-> "End", at |-> Len(w.ser.log),
                                         depth |-> 0,
                                         nodes |-> <<>>, ended |-> <<>>,
                                         rv |-> "CRASH"])]
      ELSE EndRecorded(
             w, ContextEndLoop(Return(w, NS_OK),
                               w.rcs.mRangeContexts[Len(w.rcs.mRangeContexts)], <<>>))

(***************************************************************************)
(* RangeSerializer.                                                        *)
(***************************************************************************)
\* The element of an nsTArray at an index counted from 0; an index that is
\* not in the array fails a release assertion.
OutOfBounds == -1

ElementAt(arr, i) == IF i + 1 \in DOMAIN arr THEN arr[i + 1] ELSE OutOfBounds

\* An access to an nsTArray: the index and the length of the array.
Access(arr, i) == [i |-> i, len |-> Len(arr)]

\* The walk after it made the accesses: they are kept beside the walk.
Indexing(w, accesses) == [w EXCEPT !.indexed = @ \cup accesses]

\* The accesses GetStartAndEndContentForRecursionLevel makes to the arrays of
\* the inclusive ancestors.
IndexedForRecursionLevel(rs, aDepth) ==
  (IF rs.mStartRootIndex - aDepth >= 0
      /\ rs.mStartRootIndex - aDepth <= Len(rs.mInclusiveAncestorsOfStart)
     THEN {Access(rs.mInclusiveAncestorsOfStart, rs.mStartRootIndex - aDepth)}
     ELSE {})
  \cup
  (IF rs.mEndRootIndex - aDepth >= 0
      /\ rs.mEndRootIndex - aDepth <= Len(rs.mInclusiveAncestorsOfEnd)
     THEN {Access(rs.mInclusiveAncestorsOfEnd, rs.mEndRootIndex - aDepth)}
     ELSE {})

\* The accesses SerializeNodePartiallyContainedInRange makes to the arrays
\* of the offsets.
IndexedForOffsets(rs, aContent, aStartAndEndContent, aDepth) ==
  (IF aStartAndEndContent.mStart = aContent /\ rs.mStartRootIndex >= aDepth
     THEN {Access(rs.mInclusiveAncestorsOffsetsOfStart, rs.mStartRootIndex - aDepth)}
     ELSE {})
  \cup
  (IF aStartAndEndContent.mEnd = aContent /\ rs.mEndRootIndex >= aDepth
     THEN {Access(rs.mInclusiveAncestorsOffsetsOfEnd, rs.mEndRootIndex - aDepth)}
     ELSE {})

GetStartAndEndContentForRecursionLevel(rs, aDepth) ==
  [mStart |-> IF rs.mStartRootIndex - aDepth >= 0
                 /\ rs.mStartRootIndex - aDepth <= Len(rs.mInclusiveAncestorsOfStart)
                THEN ElementAt(rs.mInclusiveAncestorsOfStart, rs.mStartRootIndex - aDepth)
                ELSE Null,
   mEnd   |-> IF rs.mEndRootIndex - aDepth >= 0
                 /\ rs.mEndRootIndex - aDepth <= Len(rs.mInclusiveAncestorsOfEnd)
                THEN ElementAt(rs.mInclusiveAncestorsOfEnd, rs.mEndRootIndex - aDepth)
                ELSE Null]

\* RangeSerializer::SerializeTextNode
SerializeTextNodeOfRange(w, aContent, aStartAndEndContent, aRange) ==
  SerializeTextNode(w, aContent,
                    IF aStartAndEndContent.mStart = aContent THEN aRange.so ELSE 0,
                    IF aStartAndEndContent.mEnd = aContent THEN aRange.eo ELSE -1)

\* GetChildAtInFlatTree or GetChildAt_Deprecated, as SerializeChildrenOfContent
\* picks the first child to serialize.
FirstChildToSerialize(rs, aContent, aStartOffset) ==
  IF rs.mAllowCrossShadowBoundary /\ IsHTMLElement(tree, aContent, "slot")
     /\ tree.assigned[aContent] # <<>>
    THEN LET a == tree.assigned[aContent]
         IN IF aStartOffset + 1 \in DOMAIN a THEN a[aStartOffset + 1] ELSE Null
    ELSE GetChildAt(tree, aContent, aStartOffset)

\* The GetNextSibling lambda of SerializeChildrenOfContent.
NextChildToSerialize(rs, aContent, aCurrentNode, aCurrentIndex) ==
  IF rs.mAllowCrossShadowBoundary /\ IsHTMLElement(tree, aContent, "slot")
    THEN LET a == tree.assigned[aContent]
         IN IF aCurrentIndex + 1 < Len(a) THEN a[aCurrentIndex + 2] ELSE Null
    ELSE GetNextSibling(tree, aCurrentNode)

RECURSIVE SerializeRangeNodes(_, _, _, _)
RECURSIVE SerializeNodePartiallyContainedInRange(_, _, _, _, _)
RECURSIVE SerializeChildrenOfContent(_, _, _, _, _, _)
RECURSIVE SerializeChildrenLoop(_, _, _, _, _, _, _, _)

\* SerializeRangeNodes that serializes a node outside the boundaries of the
\* range without the node itself, only what is under it.
SerializeRangeNodesAtLevel_ChildrenOnly(w, aRange, aNode, aDepth, startAndEndContent) ==
  IF OutOfBounds \in {startAndEndContent.mStart, startAndEndContent.mEnd}
    THEN [w EXCEPT !.crashed = TRUE, !.rv = "CRASH"]
    ELSE IF startAndEndContent.mStart # aNode /\ startAndEndContent.mEnd # aNode
      THEN SerializeToStringRecursive(w, aNode, FALSE, 0)
      ELSE SerializeNodePartiallyContainedInRange(
             w, aNode, startAndEndContent, aRange, aDepth)

\* SerializeRangeNodes once the start and end content of the level are
\* known.
SerializeRangeNodesAtLevel(w, aRange, aNode, aDepth, startAndEndContent) ==
  IF OutOfBounds \in {startAndEndContent.mStart, startAndEndContent.mEnd}
    THEN [w EXCEPT !.crashed = TRUE, !.rv = "CRASH"]
    ELSE IF startAndEndContent.mStart # aNode /\ startAndEndContent.mEnd # aNode
      THEN SerializeToStringRecursive(w, aNode, TRUE, 0)
      ELSE SerializeNodePartiallyContainedInRange(
             w, aNode, startAndEndContent, aRange, aDepth)

SerializeRangeNodes(w, aRange, aNode, aDepth) ==
  IF ~IsContent(tree, aNode)
    THEN Return(w, NS_ERROR_FAILURE)
    ELSE IF IsInvisibleNodeAndShouldBeSkipped(aNode)
      THEN Return(w, NS_OK)
      ELSE SerializeRangeNodesAtLevel(
             Indexing(w, IndexedForRecursionLevel(w.rs, aDepth)), aRange, aNode, aDepth,
             GetStartAndEndContentForRecursionLevel(w.rs, aDepth))

\* The update that goes on counting after the hint is set.
CountContextDepth_NoHalt(w, aContent, aStartAndEndContent, halt) ==
  [w EXCEPT !.rs.mHaltRangeHint = halt,
            !.rs.mContextInfoDepth.mStart =
              IF aStartAndEndContent.mStart = aContent THEN @ + 1 ELSE @,
            !.rs.mContextInfoDepth.mEnd =
              IF aStartAndEndContent.mEnd = aContent THEN @ + 1 ELSE @]

\* The update of mHaltRangeHint and mContextInfoDepth for a node that is
\* not the closest common inclusive ancestor of the range; halt is the new
\* hint.
CountContextDepth(w, aContent, aStartAndEndContent, halt) ==
  [w EXCEPT !.rs.mHaltRangeHint = halt,
            !.rs.mContextInfoDepth.mStart =
              IF aStartAndEndContent.mStart = aContent /\ ~halt THEN @ + 1 ELSE @,
            !.rs.mContextInfoDepth.mEnd =
              IF aStartAndEndContent.mEnd = aContent /\ ~halt THEN @ + 1 ELSE @]

\* The start offset SerializeNodePartiallyContainedInRange computes.
StartOffsetInLevel(rs, aContent, aStartAndEndContent, aDepth) ==
  IF aStartAndEndContent.mStart = aContent /\ rs.mStartRootIndex >= aDepth
    THEN ElementAt(rs.mInclusiveAncestorsOffsetsOfStart, rs.mStartRootIndex - aDepth)
    ELSE 0

\* The end offset that stops before the child on the way to the end of the
\* range.
EndOffsetInLevel_NoIncrement(rs, aContent, aStartAndEndContent, aRange, aDepth) ==
  IF aStartAndEndContent.mEnd = aContent /\ rs.mEndRootIndex >= aDepth
    THEN ElementAt(rs.mInclusiveAncestorsOffsetsOfEnd, rs.mEndRootIndex - aDepth)
    ELSE IF rs.mAllowCrossShadowBoundary /\ IsHTMLElement(tree, aContent, "slot")
            /\ tree.assigned[aContent] # <<>>
           THEN Len(tree.assigned[aContent])
           ELSE GetChildCount(tree, aContent)

\* The end offset SerializeNodePartiallyContainedInRange computes.
EndOffsetInLevel(rs, aContent, aStartAndEndContent, aRange, aDepth) ==
  IF aStartAndEndContent.mEnd = aContent /\ rs.mEndRootIndex >= aDepth
    THEN ElementAt(rs.mInclusiveAncestorsOffsetsOfEnd, rs.mEndRootIndex - aDepth)
         + (IF aContent # aRange.ec THEN 1 ELSE 0)
    ELSE IF rs.mAllowCrossShadowBoundary /\ IsHTMLElement(tree, aContent, "slot")
            /\ tree.assigned[aContent] # <<>>
           THEN Len(tree.assigned[aContent])
           ELSE GetChildCount(tree, aContent)

SerializeNodePartiallyContainedInRange(w, aContent, aStartAndEndContent, aRange, aDepth) ==
  IF IsText(tree, aContent)
    THEN SerializeTextNodeOfRange(w, aContent, aStartAndEndContent, aRange)
    ELSE
      Let(aContent # w.rs.mClosestCommonInclusiveAncestorOfRange, LAMBDA notCommon :
        EnsureSuccess(
          IF notCommon
            THEN SerializeNodeStart(
                   CountContextDepth(w, aContent, aStartAndEndContent,
                                     IncludeInContext(aContent) \/ w.rs.mHaltRangeHint),
                   aContent, 0, -1)
            ELSE Return(w, NS_OK),
          LAMBDA w1 :
            EnsureSuccess(
              SerializeChildrenOfContent(
                Indexing(w1, IndexedForOffsets(w1.rs, aContent, aStartAndEndContent, aDepth)),
                aContent,
                StartOffsetInLevel(w1.rs, aContent, aStartAndEndContent, aDepth),
                EndOffsetInLevel(w1.rs, aContent, aStartAndEndContent, aRange, aDepth),
                aRange, aDepth),
              LAMBDA w2 :
                IF notCommon THEN SerializeNodeEnd(w2, aContent)
                ELSE Return(w2, NS_OK))))

\* The for loop of SerializeChildrenOfContent at index j.
SerializeChildrenLoop(w, aContent, childAsNode, j, aStartOffset, aEndOffset, aRange, aDepth) ==
  IF childAsNode = Null \/ j >= aEndOffset
    THEN Return(w, NS_OK)
    ELSE EnsureSuccess(
           IF j = aStartOffset \/ j = aEndOffset - 1
             THEN SerializeRangeNodes(w, aRange, childAsNode, aDepth + 1)
             ELSE SerializeToStringRecursive(w, childAsNode, TRUE, 0),
           LAMBDA w1 :
             SerializeChildrenLoop(
               w1, aContent, NextChildToSerialize(w1.rs, aContent, childAsNode, j),
               j + 1, aStartOffset, aEndOffset, aRange, aDepth))

SerializeChildrenOfContent(w, aContent, aStartOffset, aEndOffset, aRange, aDepth) ==
  IF GetShadowRoot(aContent, w.rs.mAllowCrossShadowBoundary) # Null
    \* the nsresult of the shadow root's walk is dropped
    THEN Return(SerializeRangeNodes(
                  w, aRange, GetShadowRoot(aContent, w.rs.mAllowCrossShadowBoundary),
                  aDepth + 1),
                NS_OK)
    ELSE IF aEndOffset = 0
      THEN Return(w, NS_OK)
      ELSE SerializeChildrenLoop(
             w, aContent, FirstChildToSerialize(w.rs, aContent, aStartOffset),
             aStartOffset, aStartOffset, aEndOffset, aRange, aDepth)

HasInvisibleParentAndShouldBeSkipped(aNode) ==
  IF SkipInvisibleContent \notin mFlags THEN FALSE
  ELSE IF IsContent(tree, aNode) /\ aNode \in tree.noframe
    THEN GetParent(tree, aNode) = Null
         \/ IsInvisibleNodeAndShouldBeSkipped(GetParent(tree, aNode))
    ELSE FALSE

\* The same with the place of the common ancestor counted from 1.
RangeMembersSet_RootIndexFromOne(w, common, start, end) ==
  [w EXCEPT
     !.rs.mClosestCommonInclusiveAncestorOfRange = common,
     !.rs.mContextInfoDepth = [mStart |-> 0, mEnd |-> 0],
     !.rs.mCommonInclusiveAncestors = InclusiveAncestorsOf(tree, common),
     !.rs.mInclusiveAncestorsOfStart = start.nodes,
     !.rs.mInclusiveAncestorsOffsetsOfStart = start.offsets,
     !.rs.mInclusiveAncestorsOfEnd = end.nodes,
     !.rs.mInclusiveAncestorsOffsetsOfEnd = end.offsets,
     !.rs.mStartRootIndex =
       IndexOf(start.nodes, IF IsContent(tree, common) THEN common ELSE Null) + 1,
     !.rs.mEndRootIndex =
       IndexOf(end.nodes, IF IsContent(tree, common) THEN common ELSE Null) + 1]

\* The members SerializeRangeToString sets before the walk: the closest
\* common inclusive ancestor, its inclusive ancestors, the inclusive
\* ancestors and offsets of both boundaries, and where the common ancestor
\* is among them.
RangeMembersSet(w, common, start, end) ==
  [w EXCEPT
     !.rs.mClosestCommonInclusiveAncestorOfRange = common,
     !.rs.mContextInfoDepth = [mStart |-> 0, mEnd |-> 0],
     !.rs.mCommonInclusiveAncestors = InclusiveAncestorsOf(tree, common),
     !.rs.mInclusiveAncestorsOfStart = start.nodes,
     !.rs.mInclusiveAncestorsOffsetsOfStart = start.offsets,
     !.rs.mInclusiveAncestorsOfEnd = end.nodes,
     !.rs.mInclusiveAncestorsOffsetsOfEnd = end.offsets,
     !.rs.mStartRootIndex =
       IndexOf(start.nodes, IF IsContent(tree, common) THEN common ELSE Null),
     !.rs.mEndRootIndex =
       IndexOf(end.nodes, IF IsContent(tree, common) THEN common ELSE Null)]

\* SerializeRangeToString from the call of SerializeRangeContextStart on.
SerializeRangeInContext(w0, aRange) ==
  EnsureSuccess(
    SerializeRangeContextStart(w0, w0.rs.mCommonInclusiveAncestors),
    LAMBDA w1 :
      IF aRange.sc = aRange.ec /\ IsText(tree, aRange.sc)
        THEN IF HasInvisibleParentAndShouldBeSkipped(aRange.sc)
               THEN Return(w1, NS_OK)
               ELSE EnsureSuccess(
                      SerializeTextNode(w1, aRange.sc, aRange.so, aRange.eo),
                      LAMBDA w2 : SerializeRangeContextEnd(w2))
        ELSE EnsureSuccess(
               SerializeRangeNodes(
                 w1, aRange, w1.rs.mClosestCommonInclusiveAncestorOfRange, 0),
               LAMBDA w2 : SerializeRangeContextEnd(w2)))

\* SerializeRangeToString without the early return for a collapsed range.
SerializeRangeToString_NoCollapsedCheck(w, aRange) ==
  SerializeRangeInContext(
    RangeMembersSet(w, GetClosestCommonInclusiveAncestor(aRange),
                    GetInclusiveAncestorsAndOffsets(aRange.sc, aRange.so),
                    GetInclusiveAncestorsAndOffsets(aRange.ec, aRange.eo)),
    aRange)

\* The range is always given and never crosses a shadow boundary.
SerializeRangeToString(w, aRange) ==
  IF Collapsed(aRange)
    THEN Return(w, NS_OK)
    ELSE SerializeRangeInContext(
           RangeMembersSet(w, GetClosestCommonInclusiveAncestor(aRange),
                           GetInclusiveAncestorsAndOffsets(aRange.sc, aRange.so),
                           GetInclusiveAncestorsAndOffsets(aRange.ec, aRange.eo)),
           aRange)

(***************************************************************************)
(* The walks of a node, of the whole document and of a selection.  A       *)
(* selection is [set, ranges]: whether there is one, and its ranges in     *)
(* order.                                                                  *)
(***************************************************************************)
RECURSIVE SerializeFromNode(_, _, _)
RECURSIVE SerializeEndsFrom(_, _, _)
\* The outer while loop of SerializeToStringIterative at a node.
SerializeFromNode(w, node, aNode) ==
  IF node = Null THEN Return(w, NS_OK)
  ELSE EnsureSuccess(
         SerializeNodeStart(w, node, 0, -1),
         LAMBDA w1 :
           IF GetFirstChildOfTemplateOrNode(tree, node) # Null
             THEN SerializeFromNode(w1, GetFirstChildOfTemplateOrNode(tree, node), aNode)
             ELSE SerializeEndsFrom(w1, node, aNode))

\* The parent that goes up to the document fragment and stays there.
ParentOrTemplate_NoHost(current, aNode) == GetParentNode(tree, current)

\* current = current->GetParentNode() and the adjustment that follows it: the
\* <template> in the place of its content.
ParentOrTemplate(current, aNode) ==
  Let(GetParentNode(tree, current), LAMBDA parent :
    IF parent # Null /\ parent # aNode /\ IsDocumentFragment(tree, parent)
       /\ IsHTMLElement(tree, GetHost(tree, parent), "template")
      THEN GetHost(tree, parent)
      ELSE parent)

\* The inner while loop of SerializeToStringIterative at current.
SerializeEndsFrom(w, current, aNode) ==
  IF current = Null \/ current = aNode THEN Return(w, NS_OK)
  ELSE EnsureSuccess(
         SerializeNodeEnd(w, current),
         LAMBDA w1 :
           IF GetNextSibling(tree, current) # Null
             THEN SerializeFromNode(w1, GetNextSibling(tree, current), aNode)
             ELSE SerializeEndsFrom(w1, ParentOrTemplate(current, aNode), aNode))

SerializeToStringIterative(w, aNode) ==
  SerializeFromNode(w, GetFirstChildOfTemplateOrNode(tree, aNode), aNode)

\* mNodeFixup is not set.
SerializeNode(w, aScope) ==
  IF aScope.mNode = Null THEN Return(w, NS_ERROR_FAILURE)
  ELSE IF SkipInvisibleContent \notin mFlags /\ ~w.ts.isSome /\ aScope.mNodeIsContainer
    THEN SerializeToStringIterative(w, aScope.mNode)
    ELSE SerializeToStringRecursive(w, aScope.mNode, ~aScope.mNodeIsContainer, 0)

SerializeWholeDocument(w, aScope, aMaxLength) ==
  IF aScope.mSelection.set \/ aScope.mRange.sc # Null \/ aScope.mNode # Null
    THEN Return(w, NS_ERROR_FAILURE)
    ELSE EnsureSuccess(
           Emit(w, Event("document", mDocument, 0, 0)),
           LAMBDA w1 : SerializeToStringRecursive(w1, mDocument, TRUE, aMaxLength))

ParentIsTR(aContent) ==
  IsElement(tree, GetParentNode(tree, aContent))
  /\ IsHTMLElement(tree, GetParentNode(tree, aContent), "tr")

\* mCommonInclusiveAncestors.Clear() and GetInclusiveAncestors(aNode, ...)
WithCommonInclusiveAncestorsOf(w, aNode) ==
  [w EXCEPT !.rs.mCommonInclusiveAncestors = InclusiveAncestorsOf(tree, aNode)]

\* mDisableContextSerialize = aValue
WithDisableContextSerialize(w, aValue) ==
  [w EXCEPT !.rcs.mDisableContextSerialize = aValue]

\* "Went from a non-<tr> to a <tr>": the context of the row's parent is
\* started, and after a success the range walks are kept from serializing
\* the context again.
StartContextOfRows(w, node) ==
  EnsureSuccess(
    SerializeRangeContextStart(
      WithCommonInclusiveAncestorsOf(w, GetParentNode(tree, node)),
      InclusiveAncestorsOf(tree, GetParentNode(tree, node))),
    LAMBDA w1 : WithDisableContextSerialize(w1, TRUE))

\* "Went from a <tr> to a non-<tr>"
EndContextOfRows(w, prevNode) ==
  SerializeRangeContextEnd(
    WithCommonInclusiveAncestorsOf(WithDisableContextSerialize(w, FALSE),
                                   GetParentNode(tree, prevNode)))

\* The start container is a <tr> whose parent is not a <tr>.
IsRowOfCells(node) ==
  IsContent(tree, node) /\ IsHTMLElement(tree, node, "tr") /\ ~ParentIsTR(node)

\* if (node != prevNode) { ... } in the loop of SerializeSelection.
EnterStartContainer(w, node, prevNode) ==
  EnsureSuccess(
    IF prevNode # Null THEN SerializeNodeEnd(w, prevNode) ELSE Return(w, NS_OK),
    LAMBDA w1 :
      IF IsRowOfCells(node)
        THEN EnsureSuccess(
               IF prevNode = Null THEN StartContextOfRows(w1, node) ELSE w1,
               LAMBDA w2 : SerializeNodeStart(w2, node, 0, -1))
        ELSE IF prevNode # Null
          THEN EndContextOfRows(w1, prevNode)
          ELSE w1)

\* prevNode after the body of the loop.
PrevNodeAfter(node, prevNode) ==
  IF node = prevNode THEN prevNode
  ELSE IF IsRowOfCells(node) THEN node
  ELSE Null

\* SerializeSelection after a loop that leaves the start depth of the last
\* range.
FinishSelection_LastStartDepth(w, prevNode, firstRangeStartDepth) ==
  IF prevNode = Null
    THEN WithDisableContextSerialize(Return(w, NS_OK), FALSE)
    ELSE EnsureSuccess(
           SerializeNodeEnd(w, prevNode),
           LAMBDA w2 :
             EnsureSuccess(
               EndContextOfRows(w2, prevNode),
               LAMBDA w3 : WithDisableContextSerialize(w3, FALSE)))

\* SerializeSelection after its loop.
FinishSelection(w, prevNode, firstRangeStartDepth) ==
  Let([w EXCEPT !.rs.mContextInfoDepth.mStart = firstRangeStartDepth], LAMBDA w1 :
    IF prevNode = Null
      THEN WithDisableContextSerialize(Return(w1, NS_OK), FALSE)
      ELSE EnsureSuccess(
             SerializeNodeEnd(w1, prevNode),
             LAMBDA w2 :
               EnsureSuccess(
                 EndContextOfRows(w2, prevNode),
                 LAMBDA w3 : WithDisableContextSerialize(w3, FALSE))))

RECURSIVE SerializeSelectionLoop(_, _, _, _, _)
\* The for loop of SerializeSelection from the i-th range on, and what
\* follows the loop.
SerializeSelectionLoop(w, ranges, i, prevNode, firstRangeStartDepth) ==
  IF i > Len(ranges)
    THEN FinishSelection(w, prevNode, firstRangeStartDepth)
    ELSE IF ranges[i].sc = Null
      THEN Return(w, NS_ERROR_FAILURE)
      ELSE EnsureSuccess(
             IF ranges[i].sc # prevNode
               THEN EnterStartContainer(w, ranges[i].sc, prevNode)
               ELSE Return(w, NS_OK),
             LAMBDA w4 :
               EnsureSuccess(
                 SerializeRangeToString(w4, ranges[i]),
                 LAMBDA w5 :
                   SerializeSelectionLoop(
                     w5, ranges, i + 1, PrevNodeAfter(ranges[i].sc, prevNode),
                     IF i = 1 THEN w5.rs.mContextInfoDepth.mStart
                     ELSE firstRangeStartDepth)))

SerializeSelection(w, aScope) ==
  IF ~aScope.mSelection.set THEN Return(w, NS_ERROR_FAILURE)
  ELSE SerializeSelectionLoop(Return(w, NS_OK), aScope.mSelection.ranges, 1, Null, 0)

\* The walk SerializeDependingOnScope picks; the scope is cleared by the
\* caller of this operator.
SerializeDependingOnScope(w, aScope, aMaxLength) ==
  IF aScope.mSelection.set THEN SerializeSelection(w, aScope)
  ELSE IF aScope.mRange.sc # Null THEN SerializeRangeToString(w, aScope.mRange)
  ELSE IF aScope.mNode # Null THEN SerializeNode(w, aScope)
  ELSE SerializeWholeDocument(w, aScope, aMaxLength)

(***************************************************************************)
(* nsHTMLCopyEncoder: the promotion of a range.  A boundary is [c, o], its *)
(* container and offset; flat tells whether it is a boundary of the        *)
(* flattened tree (GetTreeKind() == TreeKind::Flat).                       *)
(***************************************************************************)
\* RawRangeBoundary(aTreeKind): a boundary that is not set.
UnsetBoundary == [c |-> Null, o |-> 0]

IsSet(pt) == pt.c # Null

Ok(pt) == [err |-> FALSE, pt |-> pt]

Err == [err |-> TRUE, pt |-> UnsetBoundary]

IsStartOfContainer(pt) == pt.o = 0

IsEndOfContainer(pt) == pt.o = LengthOf(tree, pt.c)

GetChildAtOffset(pt) == GetChildAt(tree, pt.c, pt.o)

\* The slot a light child of a shadow host is assigned to, or nullptr.
GetAssignedSlot(n) ==
  IF \E sl \in NodesOf(tree) : n \in SeqToSet(tree.assigned[sl])
    THEN CHOOSE sl \in NodesOf(tree) : n \in SeqToSet(tree.assigned[sl])
    ELSE Null

\* nsINode::GetFlattenedTreeParentNodeForSelection: a child of a shadow host
\* hangs under its slot, and under nothing when it has none.
GetFlattenedTreeParentNodeForSelection(n) ==
  IF GetParentNode(tree, n) # Null /\ tree.shadow[GetParentNode(tree, n)] # Null
    THEN GetAssignedSlot(n)
    ELSE GetParentNode(tree, n)

\* Text::TextStartsWithOnlyWhitespace
TextStartsWithOnlyWhitespace(n, aOffset) ==
  \A i \in 1..aOffset : tree.text[n][i] = "w"

\* Text::TextEndsWithOnlyWhitespace
TextEndsWithOnlyWhitespace(n, aOffset) ==
  \A i \in (aOffset + 1)..Len(tree.text[n]) : tree.text[n][i] = "w"

\* nsIContent::TextIsOnlyWhitespace
TextIsOnlyWhitespace(n) ==
  IsText(tree, n) /\ \A i \in DOMAIN tree.text[n] : tree.text[n][i] = "w"

\* nsHTMLElement::IsBlock of the element's tag
IsBlock(n) ==
  Tag(tree, n) \in {"p", "div", "table", "pre", "h1", "h2", "h3", "h4", "h5", "h6",
                    "ul", "ol", "blockquote"}

IsMozBR(n) == IsHTMLElement(tree, n, "br") /\ n \in tree.padding

ComputeIndexOfContent(aParent, aChild, flat) ==
  IF flat /\ IsHTMLElement(tree, aParent, "slot")
     /\ aChild \in SeqToSet(tree.assigned[aParent])
    THEN IndexOf(tree.assigned[aParent], aChild)
    ELSE IndexOf(Children(tree, aParent), aChild)

\* RawRangeBoundary::FromChild
FromChild(aChild) ==
  [c |-> GetParentNode(tree, aChild),
   o |-> ComputeIndexOf(tree, GetParentNode(tree, aChild), aChild)]

\* GetParentPoint once the parent node of the container is known.
PointOfContainerIn(containerParentNode, containerContent, flat) ==
  IF containerParentNode = Null THEN Err
  ELSE IF ComputeIndexOfContent(containerParentNode, containerContent, flat) < 0
    THEN Ok(UnsetBoundary)
    ELSE Ok([c |-> containerParentNode,
             o |-> ComputeIndexOfContent(containerParentNode, containerContent, flat)])

GetParentPoint(aPoint, flat) ==
  IF ~IsContent(tree, aPoint.c) THEN Err
  ELSE IF flat /\ IsShadowRoot(tree, aPoint.c)
    THEN IF GetHost(tree, aPoint.c) = Null THEN Err
         ELSE Ok(FromChild(GetHost(tree, aPoint.c)))
    ELSE PointOfContainerIn(
           IF flat THEN GetFlattenedTreeParentNodeForSelection(aPoint.c)
           ELSE GetParentNode(tree, aPoint.c),
           aPoint.c, flat)

\* IsRoot that does not know <body>.
IsRoot_NoBody(aNode, aIsTextWidget) ==
  IF ~IsContent(tree, aNode) THEN FALSE
  ELSE IF aIsTextWidget THEN IsHTMLElement(tree, aNode, "div")
  ELSE Tag(tree, aNode) \in {"td", "th", "slot"}

IsRoot(aNode, aIsTextWidget) ==
  IF ~IsContent(tree, aNode) THEN FALSE
  ELSE IF aIsTextWidget THEN IsHTMLElement(tree, aNode, "div")
  ELSE Tag(tree, aNode) \in {"body", "td", "th", "slot"}

RECURSIVE NoSignificantSiblingBefore(_)
\* The loop of ChildIsFirstNode from a sibling backwards.
NoSignificantSiblingBefore(sibling) ==
  IF sibling = Null THEN TRUE
  ELSE IF ~TextIsOnlyWhitespace(sibling) THEN FALSE
  ELSE NoSignificantSiblingBefore(GetPreviousSibling(tree, sibling))

ChildIsFirstNode(aPoint, flat) ==
  IF flat /\ IsHTMLElement(tree, aPoint.c, "slot") /\ tree.assigned[aPoint.c] # <<>>
    THEN \A i \in 1..aPoint.o : TextIsOnlyWhitespace(tree.assigned[aPoint.c][i])
    ELSE NoSignificantSiblingBefore(GetChildAt(tree, aPoint.c, aPoint.o - 1))

RECURSIVE NoSignificantSiblingAfter(_)
\* The loop of ChildIsLastNode from a sibling forwards.
NoSignificantSiblingAfter(sibling) ==
  IF sibling = Null THEN TRUE
  ELSE IF ~(IsMozBR(sibling) \/ TextIsOnlyWhitespace(sibling)) THEN FALSE
  ELSE NoSignificantSiblingAfter(GetNextSibling(tree, sibling))

ChildIsLastNode(aPoint, flat) ==
  IF flat /\ IsHTMLElement(tree, aPoint.c, "slot") /\ tree.assigned[aPoint.c] # <<>>
    THEN \A i \in (aPoint.o + 2)..Len(tree.assigned[aPoint.c]) :
           LET sibling == tree.assigned[aPoint.c][i]
           IN IsMozBR(sibling) \/ TextIsOnlyWhitespace(sibling)
    ELSE NoSignificantSiblingAfter(GetChildAt(tree, aPoint.c, aPoint.o + 1))

\* resetPromotion that no container clears.
ResetAfterContainer_Never(resetPromotion, container) == resetPromotion

\* resetPromotion after the first statement of the body of the climbing
\* loops: a block container clears it.
ResetAfterContainer(resetPromotion, container) ==
  resetPromotion /\ ~(IsElement(tree, container) /\ IsBlock(container))

\* RawRangeBoundary::StartOfParent
StartOfParent(container) == [c |-> container, o |-> 0]

\* What a climbing loop leaves: whether it returned an error, the point and
\* resetPromotion.
Climbed(err, point, resetPromotion) ==
  [err |-> err, pt |-> point, reset |-> resetPromotion]

RECURSIVE ClimbWhileFirstNode(_, _, _, _, _)
\* The while loop of GetPromotedStartPoint.
ClimbWhileFirstNode(point, resetPromotion, aCommon, flat, aIsTextWidget) ==
  IF point.c # aCommon /\ ~IsRoot(point.c, aIsTextWidget) /\ ChildIsFirstNode(point, flat)
    THEN Let(GetParentPoint(point, flat), LAMBDA parentPointOrError :
           IF parentPointOrError.err
             THEN Climbed(TRUE, point, ResetAfterContainer(resetPromotion, point.c))
             ELSE IF ~IsSet(parentPointOrError.pt)
               THEN Climbed(FALSE, StartOfParent(point.c),
                            ResetAfterContainer(resetPromotion, point.c))
               ELSE ClimbWhileFirstNode(parentPointOrError.pt,
                                        ResetAfterContainer(resetPromotion, point.c),
                                        aCommon, flat, aIsTextWidget))
    ELSE Climbed(FALSE, point, resetPromotion)

\* GetPromotedStartPoint from the point the climb starts at.
PromotedStartFrom(aPoint, point, resetPromotion, aCommon, flat, aIsTextWidget) ==
  IF IsRoot(GetChildAtOffset(point), aIsTextWidget) THEN Ok(aPoint)
  ELSE Let(ClimbWhileFirstNode(point, resetPromotion, aCommon, flat, aIsTextWidget),
           LAMBDA l :
             IF l.err THEN Err
             ELSE IF l.reset THEN Ok(aPoint)
             ELSE Ok(l.pt))

GetPromotedStartPoint(aPoint, aCommon, flat, aIsTextWidget) ==
  IF aCommon = aPoint.c THEN Ok(aPoint)
  ELSE IF IsText(tree, aPoint.c) /\ ~IsStartOfContainer(aPoint)
          /\ ~TextStartsWithOnlyWhitespace(aPoint.c, aPoint.o)
    THEN Ok(aPoint)
  ELSE IF ~IsText(tree, aPoint.c) /\ HasChildNodes(tree, aPoint.c)
          /\ ~IsEndOfContainer(aPoint)
    THEN PromotedStartFrom(aPoint, aPoint, FALSE, aCommon, flat, aIsTextWidget)
  ELSE Let(GetParentPoint(aPoint, flat), LAMBDA parentPointOrError :
         IF parentPointOrError.err THEN Err
         ELSE IF ~IsSet(parentPointOrError.pt) THEN Ok(aPoint)
         ELSE IF IsText(tree, aPoint.c) /\ parentPointOrError.pt.c = aCommon
           THEN Ok(aPoint)
         ELSE PromotedStartFrom(
                aPoint, parentPointOrError.pt,
                IsText(tree, aPoint.c) /\ ~IsStartOfContainer(aPoint),
                aCommon, flat, aIsTextWidget))

\* The parent point of a container is not set: the loop of
\* GetPromotedEndPoint stops at the start of the container, and returns an
\* error when the container is the shadow root of its parent.
ClimbedToUnsetParent(point, resetPromotion, flat) ==
  IF GetShadowRoot(IF flat THEN GetFlattenedTreeParentNodeForSelection(point.c)
                   ELSE GetParent(tree, point.c),
                   AllowCross) # point.c
    THEN Climbed(FALSE, StartOfParent(point.c), resetPromotion)
    ELSE Climbed(TRUE, point, resetPromotion)

RECURSIVE ClimbWhileLastNode(_, _, _, _, _)
\* The while loop of GetPromotedEndPoint.
ClimbWhileLastNode(point, resetPromotion, aCommon, flat, aIsTextWidget) ==
  IF point.c # aCommon /\ ~IsRoot(point.c, aIsTextWidget) /\ ChildIsLastNode(point, flat)
    THEN Let(GetParentPoint(point, flat), LAMBDA parentPointOrError :
           IF parentPointOrError.err
             THEN Climbed(TRUE, point, ResetAfterContainer(resetPromotion, point.c))
             ELSE IF IsSet(parentPointOrError.pt)
               THEN ClimbWhileLastNode(parentPointOrError.pt,
                                       ResetAfterContainer(resetPromotion, point.c),
                                       aCommon, flat, aIsTextWidget)
               ELSE ClimbedToUnsetParent(
                      point, ResetAfterContainer(resetPromotion, point.c), flat))
    ELSE Climbed(FALSE, point, resetPromotion)

\* The point a climb of GetPromotedEndPoint starts from when the container
\* is not a text node and has children.
PointToClimbFromAtEnd(aPoint) ==
  IF IsStartOfContainer(aPoint) THEN aPoint ELSE [c |-> aPoint.c, o |-> aPoint.o - 1]

\* What GetPromotedEndPoint returns when the parent point of a container
\* without children cannot be resolved: a boundary that is not set, as a
\* success.
UnresolvedParentOfEmptyContainer == Ok(UnsetBoundary)

\* "We want to be AFTER the node."
AfterClimbedPoint(point) ==
  IF GetChildAtOffset(point) # Null
    THEN [c |-> point.c, o |-> point.o + 1]
    ELSE [c |-> point.c, o |-> LengthOf(tree, point.c)]

\* GetPromotedEndPoint from the point the climb starts at.
PromotedEndFrom(aPoint, point, resetPromotion, aCommon, flat, aIsTextWidget) ==
  IF IsRoot(GetChildAtOffset(point), aIsTextWidget) THEN Ok(aPoint)
  ELSE Let(ClimbWhileLastNode(point, resetPromotion, aCommon, flat, aIsTextWidget),
           LAMBDA l :
             IF l.err THEN Err
             ELSE IF l.reset THEN Ok(aPoint)
             ELSE Ok(AfterClimbedPoint(l.pt)))

\* GetPromotedEndPoint of a point in a text node.
PromotedEndOfText(aPoint, aCommon, flat, aIsTextWidget) ==
  IF ~IsEndOfContainer(aPoint) /\ ~TextEndsWithOnlyWhitespace(aPoint.c, aPoint.o)
    THEN Ok(aPoint)
    ELSE Let(GetParentPoint(aPoint, flat), LAMBDA parentPointOrError :
           IF parentPointOrError.err THEN Err
           ELSE IF ~IsSet(parentPointOrError.pt) THEN Ok(aPoint)
           ELSE IF parentPointOrError.pt.c = aCommon THEN Ok(aPoint)
           ELSE PromotedEndFrom(aPoint, parentPointOrError.pt,
                                ~IsEndOfContainer(aPoint),
                                aCommon, flat, aIsTextWidget))

\* GetPromotedEndPoint of a point in a container without children.
PromotedEndOfEmptyContainer(aPoint, aCommon, flat, aIsTextWidget) ==
  Let(GetParentPoint(aPoint, flat), LAMBDA parentPointOrError :
    IF parentPointOrError.err THEN UnresolvedParentOfEmptyContainer
    ELSE IF ~IsSet(parentPointOrError.pt) THEN Ok(aPoint)
    ELSE PromotedEndFrom(aPoint, parentPointOrError.pt, FALSE,
                         aCommon, flat, aIsTextWidget))

GetPromotedEndPoint(aPoint, aCommon, flat, aIsTextWidget) ==
  IF aCommon = aPoint.c THEN Ok(aPoint)
  ELSE IF IsText(tree, aPoint.c)
    THEN PromotedEndOfText(aPoint, aCommon, flat, aIsTextWidget)
  ELSE IF ~HasChildNodes(tree, aPoint.c)
    THEN PromotedEndOfEmptyContainer(aPoint, aCommon, flat, aIsTextWidget)
  ELSE IF ~IsStartOfContainer(aPoint) /\ GetChildAt(tree, aPoint.c, aPoint.o - 1) = Null
    THEN Err
  ELSE PromotedEndFrom(aPoint, PointToClimbFromAtEnd(aPoint), FALSE,
                       aCommon, flat, aIsTextWidget)

\* RangeInNode::GetParentNode
ParentOfRangeInNode(aContainer, flat) ==
  IF flat THEN GetFlattenedTreeParentNodeForSelection(aContainer)
  ELSE GetParentNode(tree, aContainer)

IsEditable(n) == n \in tree.editable

\* A range in a node is [c, s, e]: the container, the start offset and the
\* end offset.
RangeInNode(aContainer, aStartOffset, aEndOffset) ==
  [c |-> aContainer, s |-> aStartOffset, e |-> aEndOffset]

\* RangeInNode::StartRef
StartRef(rangeInNode) == [c |-> rangeInNode.c, o |-> rangeInNode.s]

\* RangeInNode::EndRef
EndRef(rangeInNode) == [c |-> rangeInNode.c, o |-> rangeInNode.e]

RECURSIVE PromoteAncestorChainLoop(_, _, _, _)
\* The body of the loop that moves up whatever the parent's editability.
PromoteOneLevel_AnyEditability(rangeInNode, parentNode, aContainer, flat, aIsTextWidget) ==
  Let(GetPromotedStartPoint(StartRef(rangeInNode), parentNode, flat, aIsTextWidget),
      LAMBDA start :
        IF start.err THEN [err |-> TRUE, rng |-> rangeInNode]
        ELSE Let(GetPromotedEndPoint(EndRef(rangeInNode), parentNode, flat,
                                     aIsTextWidget),
                 LAMBDA end :
                   IF end.err THEN [err |-> TRUE, rng |-> rangeInNode]
                   ELSE IF start.pt.c # parentNode \/ end.pt.c # parentNode
                     THEN [err |-> FALSE, rng |-> rangeInNode]
                     ELSE PromoteAncestorChainLoop(
                            RangeInNode(parentNode, start.pt.o, end.pt.o),
                            aContainer, flat, aIsTextWidget)))

\* The body of the while loop of PromoteAncestorChain once the parent node
\* is known not to be null.
PromoteOneLevel(rangeInNode, parentNode, aContainer, flat, aIsTextWidget) ==
  Let(GetPromotedStartPoint(StartRef(rangeInNode), parentNode, flat, aIsTextWidget),
      LAMBDA start :
        IF start.err THEN [err |-> TRUE, rng |-> rangeInNode]
        ELSE Let(GetPromotedEndPoint(EndRef(rangeInNode), parentNode, flat,
                                     aIsTextWidget),
                 LAMBDA end :
                   IF end.err THEN [err |-> TRUE, rng |-> rangeInNode]
                   ELSE IF start.pt.c # parentNode \/ end.pt.c # parentNode
                           \/ IsEditable(parentNode) # IsEditable(aContainer)
                     THEN [err |-> FALSE, rng |-> rangeInNode]
                     ELSE PromoteAncestorChainLoop(
                            RangeInNode(parentNode, start.pt.o, end.pt.o),
                            aContainer, flat, aIsTextWidget)))

\* The while loop of PromoteAncestorChain.
PromoteAncestorChainLoop(rangeInNode, aContainer, flat, aIsTextWidget) ==
  IF ParentOfRangeInNode(rangeInNode.c, flat) = Null
    THEN [err |-> FALSE, rng |-> rangeInNode]
    ELSE PromoteOneLevel(rangeInNode, ParentOfRangeInNode(rangeInNode.c, flat),
                         aContainer, flat, aIsTextWidget)

PromoteAncestorChain(aRangeInNode, flat, aIsTextWidget) ==
  PromoteAncestorChainLoop(aRangeInNode, aRangeInNode.c, flat, aIsTextWidget)

\* nsRange::IsValidPoints of one boundary
IsValidBoundary(pt) == IsSet(pt) /\ pt.o <= LengthOf(tree, pt.c)

\* nsRange::SetStart: an invalid boundary is an error; a start after the end
\* or in another tree collapses the range to the start.
SetStart(r, pt) ==
  IF ~IsValidBoundary(pt) THEN [err |-> TRUE, range |-> r]
  ELSE IF RootOf(tree, pt.c) # RootOf(tree, r.ec)
          \/ ~PathBefore(PointPath(tree, pt.c, pt.o), PointPath(tree, r.ec, r.eo))
    THEN [err |-> FALSE, range |-> [sc |-> pt.c, so |-> pt.o, ec |-> pt.c, eo |-> pt.o]]
    ELSE [err |-> FALSE, range |-> [r EXCEPT !.sc = pt.c, !.so = pt.o]]

\* nsRange::SetEnd: an invalid boundary is an error; an end before the start
\* or in another tree collapses the range to the end.
SetEnd(r, pt) ==
  IF ~IsValidBoundary(pt) THEN [err |-> TRUE, range |-> r]
  ELSE IF RootOf(tree, pt.c) # RootOf(tree, r.sc)
          \/ ~PathBefore(PointPath(tree, r.sc, r.so), PointPath(tree, pt.c, pt.o))
    THEN [err |-> FALSE, range |-> [sc |-> pt.c, so |-> pt.o, ec |-> pt.c, eo |-> pt.o]]
    ELSE [err |-> FALSE, range |-> [r EXCEPT !.ec = pt.c, !.eo = pt.o]]

\* StaticPrefs::dom_serializer_includeCommonAncestor_enabled()
IncludeCommonAncestorEnabled == TRUE

\* What PromoteRange does with the promoted points: it sets the start, then
\* the end, and returns at the first that fails.
SetPromotedPoints(inRange, promotedStartPoint, promotedEndPoint) ==
  Let(SetStart(inRange, promotedStartPoint), LAMBDA s :
    IF s.err THEN [rv |-> NS_ERROR_FAILURE, range |-> s.range]
    ELSE Let(SetEnd(s.range, promotedEndPoint), LAMBDA e :
           IF e.err THEN [rv |-> NS_ERROR_FAILURE, range |-> e.range]
           ELSE [rv |-> NS_OK, range |-> e.range]))

\* PromoteRange that never looks at the ancestors of the common ancestor.
PromoteToPoints_NoAncestorChain(inRange, commonAncestor, start, end, flat, aIsTextWidget) ==
  SetPromotedPoints(inRange, start, end)

\* PromoteRange once both points are promoted: "if both range endpoints are
\* at the common ancestor, check for possible inclusion of ancestors", then
\* "set the range to the new values".
PromoteToPoints(inRange, commonAncestor, start, end, flat, aIsTextWidget) ==
  IF IncludeCommonAncestorEnabled /\ start.c = commonAncestor /\ end.c = commonAncestor
    THEN Let(PromoteAncestorChain(RangeInNode(start.c, start.o, end.o),
                                  flat, aIsTextWidget),
             LAMBDA chain :
               IF chain.err THEN [rv |-> NS_ERROR_FAILURE, range |-> inRange]
               ELSE SetPromotedPoints(inRange, StartRef(chain.rng), EndRef(chain.rng)))
    ELSE SetPromotedPoints(inRange, start, end)

\* PromoteRange once the common ancestor is known.
PromoteRangeBelow(inRange, commonAncestor, flat, aIsTextWidget) ==
  Let(GetPromotedStartPoint([c |-> inRange.sc, o |-> inRange.so], commonAncestor,
                            flat, aIsTextWidget),
      LAMBDA start :
        IF start.err THEN [rv |-> NS_ERROR_FAILURE, range |-> inRange]
        ELSE Let(GetPromotedEndPoint([c |-> inRange.ec, o |-> inRange.eo],
                                     commonAncestor, flat, aIsTextWidget),
                 LAMBDA end :
                   IF end.err THEN [rv |-> NS_ERROR_FAILURE, range |-> inRange]
                   ELSE PromoteToPoints(inRange, commonAncestor, start.pt, end.pt,
                                        flat, aIsTextWidget)))

\* The range is positioned and its boundaries are boundaries of the tree
\* kind of the encoder.
PromoteRange(inRange, aIsTextWidget) ==
  PromoteRangeBelow(inRange, GetClosestCommonInclusiveAncestor(inRange), AllowCross,
                    aIsTextWidget)

(***************************************************************************)
(* The state of the encoder and the calls of a pass.                       *)
(***************************************************************************)
\* A pass starts with a serializer that has received nothing.
NewSerializer(failAt) == [log |-> <<>>, calls |-> 0, failAt |-> failAt]

\* The outcomes of a read of the length of a string that is gone: some
\* length up to kMaxLengthBeforeFlush, a greater one, or a fault.
UseAfterScopeOutcomes == {"short", "long", "crash"}

\* ts is the streamer the walk finds in mTextStreamer, ub what the build
\* makes of a read of a buffer that is gone.
NewWalk(failAt) ==
  [ser |-> NewSerializer(failAt), rv |-> NS_OK, crashed |-> FALSE,
   rcs |-> mRangeContextSerializer, rs |-> mRangeSerializer, hist |-> <<>>,
   ts |-> mTextStreamer, ub |-> "short", indexed |-> {},
   buffer |-> NoStringBuffer, allocated |-> FALSE, cached |-> FALSE, shared |-> FALSE]

\* The constructor of RangeContextSerializer.
NewRangeContextSerializer == [mDisableContextSerialize |-> FALSE, mRangeContexts |-> <<>>]

\* RangeSerializer::Initialize, on the members the constructor left.
InitializedRangeSerializer(rs, aAllowCrossShadowBoundary) ==
  [rs EXCEPT !.mContextInfoDepth = [mStart |-> 0, mEnd |-> 0],
             !.mStartRootIndex = 0,
             !.mEndRootIndex = 0,
             !.mHaltRangeHint = FALSE,
             !.mClosestCommonInclusiveAncestorOfRange = Null,
             !.mInclusiveAncestorsOfStart = <<>>,
             !.mInclusiveAncestorsOffsetsOfStart = <<>>,
             !.mInclusiveAncestorsOfEnd = <<>>,
             !.mInclusiveAncestorsOffsetsOfEnd = <<>>,
             !.mAllowCrossShadowBoundary = aAllowCrossShadowBoundary]

\* The constructor of RangeSerializer.
NewRangeSerializer ==
  [mContextInfoDepth |-> [mStart |-> 0, mEnd |-> 0],
   mStartRootIndex |-> 0,
   mEndRootIndex |-> 0,
   mHaltRangeHint |-> FALSE,
   mClosestCommonInclusiveAncestorOfRange |-> Null,
   mCommonInclusiveAncestors |-> <<>>,
   mInclusiveAncestorsOfStart |-> <<>>,
   mInclusiveAncestorsOffsetsOfStart |-> <<>>,
   mInclusiveAncestorsOfEnd |-> <<>>,
   mInclusiveAncestorsOffsetsOfEnd |-> <<>>,
   mAllowCrossShadowBoundary |-> FALSE]

\* A selection pointer that is null, and a range pointer that is null.
NoSelection == [set |-> FALSE, ranges |-> <<>>]

NoRange == [sc |-> Null, so |-> 0, ec |-> Null, eo |-> 0]

\* EncodingScope{}
EmptyScope == [mSelection |-> NoSelection, mRange |-> NoRange, mNode |-> Null,
               mNodeIsContainer |-> FALSE]

\* The flags a caller passes to Init.
FlagSets == SUBSET {SkipInvisibleContent, AllowCrossShadowBoundary}

\* In the flattened tree a node of a shadow tree hangs under the host and a
\* light child of a host under its slot; the ranges the model serializes
\* with AllowCrossShadowBoundary have their boundaries outside such nodes,
\* where the flattened-tree ancestors and offsets are the light-tree ones.
FlatIsLight(n) ==
  \A a \in SeqToSet(InclusiveAncestorsOf(tree, n)) :
    /\ ~IsShadowRoot(tree, a)
    /\ (a # n => tree.shadow[a] = Null)

(***************************************************************************)
(* The range walk on its own: an encoder just initialized with some flags  *)
(* serializes one range.                                                   *)
(***************************************************************************)
InitRange ==
  /\ tree \in Documents
  /\ isCopy \in BOOLEAN
  /\ mDocument = 1
  /\ mFlags \in FlagSets
  /\ mEncodingScope = EmptyScope
  /\ mRangeContextSerializer = NewRangeContextSerializer
  /\ mRangeSerializer =
       InitializedRangeSerializer(NewRangeSerializer, AllowCrossShadowBoundary \in mFlags)
  /\ mIsTextWidget = FALSE
  /\ InitializedForHTML
  /\ ret = [op |-> "none"]

\* What the call leaves in the encoder, and what it returned.
AfterSerializeRangeToString(aRange, w) ==
  /\ mRangeContextSerializer' = w.rcs
  /\ mRangeSerializer' = w.rs
  /\ ret' = [op |-> "SerializeRangeToString", range |-> aRange,
             rv |-> w.rv, log |-> w.ser.log, hist |-> w.hist,
             failed |-> SerializerFailed(w), crashed |-> w.crashed,
             indexed |-> w.indexed]

CallSerializeRangeToString(aRange, failAt) ==
  /\ ret.op = "none"
  /\ AllowCross => FlatIsLight(aRange.sc) /\ FlatIsLight(aRange.ec)
  /\ AfterSerializeRangeToString(
       aRange, SerializeRangeToString(NewWalk(failAt), aRange))
  /\ UNCHANGED <<tree, isCopy, mDocument, mFlags, mEncodingScope, mIsTextWidget>>
  /\ UNCHANGED outputVars

NextRange ==
  \E aRange \in RangesOf[tree.name], failAt \in 0..MaxFailAt :
    CallSerializeRangeToString(aRange, failAt)

SpecRange == InitRange /\ [][NextRange]_vars

(***************************************************************************)
(* Properties of the range walk.                                           *)
(***************************************************************************)
RECURSIVE ShadowIncludingInclusiveAncestors(_)
ShadowIncludingInclusiveAncestors(n) ==
  IF n = Null THEN {}
  ELSE {n} \cup ShadowIncludingInclusiveAncestors(
                  IF IsShadowRoot(tree, n) THEN GetHost(tree, n)
                  ELSE GetParentNode(tree, n))

\* A node and everything under it, its shadow tree included.
ShadowIncludingSubtree(n) ==
  {m \in NodesOf(tree) : n \in ShadowIncludingInclusiveAncestors(m)}

\* The events of a log that are about some nodes.
EventsOf(log, nodes) == SelectSeq(log, LAMBDA ev : ev.node \in nodes)

\* A node is contained in a range when the range starts at or before the
\* point before the node and ends at or after the point after it.
FullyContained(r, n) ==
  LET p == GetParentNode(tree, n)
  IN /\ p # Null
     /\ RootOf(tree, n) = RootOf(tree, r.sc)
     /\ PathBefore(PointPath(tree, r.sc, r.so),
                   PointPath(tree, p, ComputeIndexOf(tree, p, n)))
     /\ PathBefore(PointPath(tree, p, ComputeIndexOf(tree, p, n) + 1),
                   PointPath(tree, r.ec, r.eo))

\* What the serializer receives when a node is serialized on its own.
AloneLog(n) == SerializeToStringRecursive(NewWalk(0), n, TRUE, 0).ser.log

RangeWalked == ret.op = "SerializeRangeToString"

\* The walk returned NS_OK and the serializer accepted every call.
RangeWalkSucceeded == RangeWalked /\ ret.rv = NS_OK /\ ~ret.failed

ReachedByWalk(n) ==
  \A a \in SeqToSet(InclusiveAncestorsOf(tree, n)) \ {n} :
    /\ ~(/\ SkipInvisibleContent \in mFlags
         /\ IsElement(tree, a)
         /\ a \in tree.noframe
         /\ a \notin tree.contents
         /\ Tag(tree, a) # "rp")
    /\ ~(AllowCrossShadowBoundary \in mFlags /\ tree.shadow[a] # Null)

TextIsShown(t) ==
  \/ SkipInvisibleContent \notin mFlags
  \/ t \notin tree.noframe /\ t \notin tree.hidden
  \/ /\ t \in tree.noframe
     /\ GetParent(tree, t) # Null
     /\ GetParent(tree, t) \notin tree.noframe

C3_CollapsedRangeIsNoOp ==
  (RangeWalked /\ Collapsed(ret.range)) =>
    /\ ret.rv = NS_OK
    /\ ret.log = <<>>
    /\ ret.hist = <<>>
    /\ mRangeContextSerializer.mRangeContexts = <<>>

C3_Witness == RangeWalked /\ Collapsed(ret.range) /\ isCopy /\ ret.rv = NS_OK

\* C6 as stated: a SerializeRangeToString that called SerializeRangeContextStart
\* and returned NS_OK also called SerializeRangeContextEnd, so the context
\* stack is as deep as before.
C6_Original ==
  (RangeWalkSucceeded /\ ret.hist # <<>>) =>
    /\ Len(ret.hist) = 2
    /\ ret.hist[2].call = "End"
    /\ mRangeContextSerializer.mRangeContexts = <<>>

(***************************************************************************)
(* The promotion on its own: a copy encoder just initialized promotes one  *)
(* range.                                                                  *)
(***************************************************************************)
\* In the flattened tree the boundaries the model promotes are in nodes
\* whose children are their light-tree children: no shadow host, no slot,
\* nothing of a shadow tree.
IsPromotable(aRange) ==
  AllowCross =>
    \A c \in {aRange.sc, aRange.ec} :
      /\ tree.shadow[c] = Null
      /\ ~IsHTMLElement(tree, c, "slot")
      /\ \A a \in SeqToSet(InclusiveAncestorsOf(tree, c)) : ~IsShadowRoot(tree, a)

InitPromote ==
  /\ tree \in Documents
  /\ isCopy = TRUE
  /\ mDocument = 1
  /\ mFlags \in {{}, {AllowCrossShadowBoundary}}
  /\ mEncodingScope = EmptyScope
  /\ mRangeContextSerializer = NewRangeContextSerializer
  /\ mRangeSerializer =
       InitializedRangeSerializer(NewRangeSerializer, AllowCrossShadowBoundary \in mFlags)
  /\ mIsTextWidget = FALSE
  /\ InitializedForHTML
  /\ ret = [op |-> "none"]

\* What the call returned, and the range as the call left it.
AfterPromoteRange(inRange, p) ==
  ret' = [op |-> "PromoteRange", range |-> inRange, rv |-> p.rv, promoted |-> p.range]

CallPromoteRange(inRange) ==
  /\ ret.op = "none"
  /\ IsPromotable(inRange)
  /\ AfterPromoteRange(inRange, PromoteRange(inRange, mIsTextWidget))
  /\ UNCHANGED <<tree, isCopy, mDocument, mFlags, mEncodingScope,
                 mRangeContextSerializer, mRangeSerializer, mIsTextWidget>>
  /\ UNCHANGED outputVars

NextPromote == \E inRange \in RangesOf[tree.name] : CallPromoteRange(inRange)

SpecPromote == InitPromote /\ [][NextPromote]_vars

(***************************************************************************)
(* The steps of the promotion on their own: a copy encoder just            *)
(* initialized promotes one boundary, or one range in a node.  SetSelection *)
(* returns before it promotes when the selection is in a text widget       *)
(* (line 1806), so that mIsTextWidget is false in every call.              *)
(***************************************************************************)
PointDocuments == Documents \cup {DocSlot, DocSpaces}

\* The common ancestors the callers pass for a boundary in a container:
\* PromoteRange an inclusive ancestor of it, PromoteAncestorChain its parent
\* in the tree kind of the encoder.
CommonsOf(aContainer) ==
  (SeqToSet(InclusiveAncestorsOf(tree, aContainer))
     \cup {ParentOfRangeInNode(aContainer, AllowCross)}) \ {Null}

IsPromotablePoint(aContainer) == IsPromotable([sc |-> aContainer, ec |-> aContainer])

InitPoint ==
  /\ tree \in PointDocuments
  /\ isCopy = TRUE
  /\ mDocument = 1
  /\ mFlags \in {{}, {AllowCrossShadowBoundary}}
  /\ mEncodingScope = EmptyScope
  /\ mRangeContextSerializer = NewRangeContextSerializer
  /\ mRangeSerializer =
       InitializedRangeSerializer(NewRangeSerializer, AllowCrossShadowBoundary \in mFlags)
  /\ mIsTextWidget = FALSE
  /\ InitializedForHTML
  /\ ret = [op |-> "none"]

\* The encoder is left as it was: the promotion only computes.
PromotionReturned ==
  /\ UNCHANGED <<tree, isCopy, mDocument, mFlags, mEncodingScope,
                 mRangeContextSerializer, mRangeSerializer, mIsTextWidget>>
  /\ UNCHANGED outputVars

AfterPromotedPoint(op, aPoint, aCommon, p) ==
  ret' = [op |-> op, point |-> aPoint, common |-> aCommon, err |-> p.err, pt |-> p.pt]

CallGetPromotedStartPoint(aPoint, aCommon) ==
  /\ ret.op = "none"
  /\ IsPromotablePoint(aPoint.c)
  /\ AfterPromotedPoint("GetPromotedStartPoint", aPoint, aCommon,
                        GetPromotedStartPoint(aPoint, aCommon, AllowCross, mIsTextWidget))
  /\ PromotionReturned

CallGetPromotedEndPoint(aPoint, aCommon) ==
  /\ ret.op = "none"
  /\ IsPromotablePoint(aPoint.c)
  /\ AfterPromotedPoint("GetPromotedEndPoint", aPoint, aCommon,
                        GetPromotedEndPoint(aPoint, aCommon, AllowCross, mIsTextWidget))
  /\ PromotionReturned

AfterPromoteAncestorChain(aRangeInNode, p) ==
  ret' = [op |-> "PromoteAncestorChain", rangeInNode |-> aRangeInNode,
          err |-> p.err, rng |-> p.rng]

CallPromoteAncestorChain(aRangeInNode) ==
  /\ ret.op = "none"
  /\ IsPromotablePoint(aRangeInNode.c)
  /\ AfterPromoteAncestorChain(aRangeInNode,
                               PromoteAncestorChain(aRangeInNode, AllowCross,
                                                    mIsTextWidget))
  /\ PromotionReturned

\* The boundaries of a document, as records.
BoundariesOf(d) == {[c |-> pt[1], o |-> pt[2]] : pt \in PointsOf(d)}

\* The ranges in a node of a document.
RangesInNodesOf(d) ==
  UNION {{RangeInNode(s.c, s.o, e) : e \in s.o..LengthOf(d, s.c)} : s \in BoundariesOf(d)}

NextPoint ==
  \/ \E aPoint \in BoundariesOf(tree) : \E aCommon \in CommonsOf(aPoint.c) :
       CallGetPromotedStartPoint(aPoint, aCommon)
  \/ \E aPoint \in BoundariesOf(tree) : \E aCommon \in CommonsOf(aPoint.c) :
       CallGetPromotedEndPoint(aPoint, aCommon)
  \/ \E aRangeInNode \in RangesInNodesOf(tree) : CallPromoteAncestorChain(aRangeInNode)

SpecPoint == InitPoint /\ [][NextPoint]_vars

(***************************************************************************)
(* Properties of the promotion.                                            *)
(***************************************************************************)
Promoted == ret.op = "PromoteRange"

\* The significant content a range selects: the characters other than white
\* space of the text between its boundaries, and the nodes without children
\* it contains that are neither text nor a padding line break.
SignificantContent(r) ==
  {<<n, i>> \in NodesOf(tree) \X (0..3) :
     IF IsText(tree, n)
       THEN /\ i \in DOMAIN tree.text[n]
            /\ tree.text[n][i] # "w"
            /\ RootOf(tree, n) = RootOf(tree, r.sc)
            /\ PathBefore(PointPath(tree, r.sc, r.so), PointPath(tree, n, i - 1))
            /\ PathBefore(PointPath(tree, n, i), PointPath(tree, r.ec, r.eo))
       ELSE /\ i = 0
            /\ ~HasChildNodes(tree, n)
            /\ ~IsMozBR(n)
            /\ FullyContained(r, n)}

\* C7 as stated: the range PromoteRange produces selects no significant
\* content the original range did not select.
C7_Original ==
  (Promoted /\ ret.rv = NS_OK) =>
    SignificantContent(ret.promoted) \subseteq SignificantContent(ret.range)

\* The range that starts immediately before a node and ends immediately
\* after it.
RangeAround(n) ==
  LET p == GetParentNode(tree, n)
  IN [sc |-> p, so |-> ComputeIndexOf(tree, p, n),
      ec |-> p, eo |-> ComputeIndexOf(tree, p, n) + 1]

\* The ranges C8 is about: all the children of an element B that has some,
\* is no root element and is as editable as its parent.
SelectsChildrenOf(r, b) ==
  /\ IsElement(tree, b)
  /\ HasChildNodes(tree, b)
  /\ r = [sc |-> b, so |-> 0, ec |-> b, eo |-> GetChildCount(tree, b)]
  /\ ~IsRoot(b, FALSE)
  /\ GetParentNode(tree, b) # Null
  /\ IsEditable(GetParentNode(tree, b)) = IsEditable(b)

C9_Original == (Promoted /\ ret.rv # NS_OK) => ret.promoted = ret.range

(***************************************************************************)
(* The encoder as its callers use it: Init, the four setters of the scope  *)
(* and EncodeToString, in any order, on an encoder just constructed.       *)
(***************************************************************************)
Range(sc, so, ec, eo) == [sc |-> sc, so |-> so, ec |-> ec, eo |-> eo]

\* The selections, ranges, nodes and flags the callers pass, per document.
\* In the table the cells of the first row are selected one by one, then
\* the cell of the second row or the text after the table.
ApiSelections ==
  [inline   |-> {<<>>, <<Range(6, 0, 6, 2)>>},
   hidden   |-> {<<Range(5, 0, 5, 1), Range(5, 1, 5, 2)>>},
   table    |-> {<<Range(5, 1, 5, 2)>>,
                 <<Range(5, 0, 5, 1), Range(5, 1, 5, 2), Range(8, 0, 8, 1)>>,
                 <<Range(5, 1, 5, 2), Range(12, 0, 12, 1)>>},
   shadow   |-> {<<Range(7, 0, 7, 1), Range(4, 0, 11, 0)>>},
   editable |-> {<<Range(6, 0, 6, 1)>>}]

ApiRanges ==
  [inline   |-> {Range(4, 1, 7, 1)},
   hidden   |-> {Range(5, 0, 5, 2)},
   table    |-> {},
   shadow   |-> {},
   editable |-> {}]

ApiNodes ==
  [inline   |-> {3},
   hidden   |-> {},
   table    |-> {},
   shadow   |-> {3},
   editable |-> {}]

ApiFlagSets ==
  [inline   |-> {{}, {SkipInvisibleContent}},
   hidden   |-> {{SkipInvisibleContent}},
   table    |-> {{}, {RequiresReinitAfterOutput}},
   shadow   |-> {{AllowCrossShadowBoundary}},
   editable |-> {{}}]

\* The process was ended by a failed assertion, or a call of the encoder
\* from inside a pass has left the pass with a serializer whose output
\* string is gone.
Crashed ==
  \/ ret.op \in {"EncodeToString", "EncodeToStream", "EncodeToStringWithContext",
                 "EncodeToStringWithMaxLength"}
     /\ ret.crashed
  \/ ret.op = "ReentrantEncode"

\* nsDocumentEncoder::Initialize
Initialize(aClearCachedSerializer, aAllowCrossShadowBoundary) ==
  /\ mRangeSerializer' =
       InitializedRangeSerializer(mRangeSerializer, aAllowCrossShadowBoundary)
  /\ mRangeContextSerializer' =
       [mRangeContextSerializer EXCEPT !.mDisableContextSerialize = FALSE]
  /\ mEncodingScope' = EmptyScope
  /\ mSerializer' = IF aClearCachedSerializer THEN nullptr ELSE mSerializer

\* The MIME types nsHTMLCopyEncoder::Init accepts.
CopyMimeTypes == {kTextMime, kHTMLMime}

\* nsDocumentEncoder::Init and nsHTMLCopyEncoder::Init, with a document.
EncoderInit(aMimeType, aFlags) ==
  /\ ~Crashed
  /\ isCopy => aMimeType \in CopyMimeTypes
  /\ mIsTextWidget' = FALSE
  /\ Initialize(isCopy \/ mMimeType # aMimeType, AllowCrossShadowBoundary \in aFlags)
  /\ mDocument' = 1
  /\ mMimeType' = aMimeType
  /\ mFlags' = aFlags
  /\ ret' = [op |-> "Init", rv |-> NS_OK]
  /\ UNCHANGED <<tree, isCopy, mEncoding, mTextStreamer, mCachedBuffer>>

\* The loop of nsHTMLCopyEncoder::SetSelection over the ancestors of the
\* first range: is one of them an <input> or a <textarea>?
InTextWidget(aSelection) ==
  \E selContent \in SeqToSet(InclusiveAncestorsOf(
                              tree, GetClosestCommonInclusiveAncestor(aSelection[1]))) :
    /\ IsContent(tree, selContent)
    /\ \/ IsHTMLElement(tree, selContent, "input")
       \/ IsHTMLElement(tree, selContent, "textarea")

RECURSIVE PromoteRanges(_, _, _)
\* The loop of nsHTMLCopyEncoder::SetSelection over the ranges: the new
\* selection gets the promoted ranges up to the first that fails.
PromoteRanges(aSelection, rangeIdx, added) ==
  IF rangeIdx > Len(aSelection) THEN [rv |-> NS_OK, ranges |-> added]
  ELSE Let(PromoteRange(aSelection[rangeIdx], mIsTextWidget), LAMBDA p :
         IF p.rv # NS_OK THEN [rv |-> p.rv, ranges |-> added]
         ELSE PromoteRanges(aSelection, rangeIdx + 1, Append(added, p.range)))

\* The ranges of the model keep their boundaries where the flattened tree
\* is the light tree.
Serializable(ranges) ==
  \A k \in DOMAIN ranges :
    AllowCross => FlatIsLight(ranges[k].sc) /\ FlatIsLight(ranges[k].ec)

\* nsDocumentEncoder::SetSelection
BaseSetSelection(aSelection) ==
  /\ ~isCopy
  /\ Serializable(aSelection)
  /\ mEncodingScope' =
       [mEncodingScope EXCEPT !.mSelection = [set |-> TRUE, ranges |-> aSelection]]
  /\ ret' = [op |-> "SetSelection", rv |-> NS_OK]
  /\ UNCHANGED <<mIsTextWidget, mMimeType>>

\* The selection nsHTMLCopyEncoder::SetSelection leaves in the scope after
\* its loop over the ranges, and what it returns.
SetPromotedSelection(p) ==
  /\ Serializable(p.ranges)
  /\ mEncodingScope' =
       [mEncodingScope EXCEPT !.mSelection = [set |-> TRUE, ranges |-> p.ranges]]
  /\ ret' = [op |-> "SetSelection", rv |-> p.rv]

\* nsHTMLCopyEncoder::SetSelection
CopySetSelection(aSelection) ==
  /\ isCopy
  /\ IF Len(aSelection) = 0
       THEN /\ ret' = [op |-> "SetSelection", rv |-> NS_ERROR_FAILURE]
            /\ UNCHANGED <<mEncodingScope, mIsTextWidget, mMimeType>>
       ELSE IF mIsTextWidget \/ InTextWidget(aSelection) \/ mDocument = Null
         THEN /\ Serializable(aSelection)
              /\ mIsTextWidget' = TRUE
              /\ mMimeType' = IF mIsTextWidget \/ InTextWidget(aSelection)
                                THEN kTextMime ELSE mMimeType
              /\ mEncodingScope' =
                   [mEncodingScope EXCEPT
                      !.mSelection = [set |-> TRUE, ranges |-> aSelection]]
              /\ ret' = [op |-> "SetSelection", rv |-> NS_OK]
         ELSE /\ \A k \in DOMAIN aSelection : IsPromotable(aSelection[k])
              /\ SetPromotedSelection(PromoteRanges(aSelection, 1, <<>>))
              /\ UNCHANGED <<mIsTextWidget, mMimeType>>

SetSelection(aSelection) ==
  /\ ~Crashed
  /\ BaseSetSelection(aSelection) \/ CopySetSelection(aSelection)
  /\ UNCHANGED <<tree, isCopy, mDocument, mFlags, mRangeContextSerializer,
                 mRangeSerializer, mEncoding, mSerializer, mTextStreamer,
                 mCachedBuffer>>

SetRange(aRange) ==
  /\ ~Crashed
  /\ Serializable(<<aRange>>)
  /\ mEncodingScope' = [mEncodingScope EXCEPT !.mRange = aRange]
  /\ ret' = [op |-> "SetRange", rv |-> NS_OK]
  /\ UNCHANGED <<tree, isCopy, mDocument, mFlags, mRangeContextSerializer,
                 mRangeSerializer, mIsTextWidget>>
  /\ UNCHANGED outputVars

SetNode(aNode) ==
  /\ ~Crashed
  /\ mEncodingScope' = [mEncodingScope EXCEPT !.mNodeIsContainer = FALSE,
                                              !.mNode = aNode]
  /\ ret' = [op |-> "SetNode", rv |-> NS_OK]
  /\ UNCHANGED <<tree, isCopy, mDocument, mFlags, mRangeContextSerializer,
                 mRangeSerializer, mIsTextWidget>>
  /\ UNCHANGED outputVars

SetContainerNode(aContainer) ==
  /\ ~Crashed
  /\ mEncodingScope' = [mEncodingScope EXCEPT !.mNodeIsContainer = TRUE,
                                              !.mNode = aContainer]
  /\ ret' = [op |-> "SetContainerNode", rv |-> NS_OK]
  /\ UNCHANGED <<tree, isCopy, mDocument, mFlags, mRangeContextSerializer,
                 mRangeSerializer, mIsTextWidget>>
  /\ UNCHANGED outputVars

\* The MIME types do_CreateInstance finds a content serializer for.
SerializerMimeTypes == {kTextMime, kHTMLMime}

\* The MIME type nsHTMLCopyEncoder::EncodeToString leaves in mMimeType.
MimeTypeToEncode == IF isCopy /\ mIsTextWidget THEN kTextMime ELSE mMimeType

\* mSerializer after if (!mSerializer) { mSerializer = do_CreateInstance }.
CreatedSerializer ==
  IF mSerializer # nullptr THEN mSerializer
  ELSE IF MimeTypeToEncode \in SerializerMimeTypes THEN MimeTypeToEncode
  ELSE nullptr

\* The text an event adds to the output of the serializer: the characters
\* of a text node as runs, one code unit of markup for anything else.
EventText(ev) ==
  IF ev.op = "text"
    THEN IF EventLength(ev) = 0 THEN <<>>
         ELSE TextRuns(tree.text[ev.node], ev.s,
                       EndOffsetIn(ev.e, Len(tree.text[ev.node])))
    ELSE IF ev.op = "finish" THEN <<>> ELSE <<Run("<", 1)>>

RECURSIVE OutputOf(_)
\* The string the serializer was initialized with, after the events of log.
OutputOf(log) ==
  IF log = <<>> THEN <<>> ELSE AppendText(EventText(Head(log)), OutputOf(Tail(log)))

\* output.Assign(mCachedBuffer.forget(), 0) and what precedes it: the local
\* string output takes the buffer of the encoder, a new one if the encoder
\* has none.  w.buffer is the buffer of output, w.cached tells whether
\* mCachedBuffer holds it too, w.shared whether aOutputString does.
WithOutputBuffer(w) ==
  [w EXCEPT !.buffer = IF mCachedBuffer = NoStringBuffer
                         THEN Alloc(kStringBufferSizeInBytes)
                         ELSE mCachedBuffer,
            !.allocated = mCachedBuffer = NoStringBuffer]

\* The storage a string of aLength code units and its terminator need.
StorageFor(aLength) == 2 * (aLength + 1)

\* The buffer of output after the serializer appended to it: a string that
\* outgrows its storage moves to a greater one.
Grown(w) ==
  IF StorageFor(GetOutputLength(w)) > w.buffer.storage
    THEN [w EXCEPT !.buffer.storage = StorageFor(GetOutputLength(w))]
    ELSE w

\* The end of EncodeToStringWithMaxLength that caches the buffer and hands
\* it to the caller as well.
SetOutputString_CachedAndAssigned(w) ==
  IF w.buffer.storage = kStringBufferSizeInBytes /\ ~IsReadonly(w.buffer)
    THEN [w EXCEPT !.cached = TRUE, !.shared = Succeeded(w),
                   !.buffer.refs = @ + 1 + (IF Succeeded(w) THEN 1 ELSE 0)]
    ELSE IF Succeeded(w) THEN [w EXCEPT !.shared = TRUE, !.buffer.refs = @ + 1]
    ELSE w

\* "Try to cache the buffer": the encoder keeps the buffer of output, or
\* else aOutputString shares it after a success; a string that does not
\* share it gets a copy of the characters.
SetOutputString(w) ==
  IF w.buffer.storage = kStringBufferSizeInBytes /\ ~IsReadonly(w.buffer)
    THEN [w EXCEPT !.cached = TRUE, !.buffer.refs = @ + 1]
    ELSE IF Succeeded(w) THEN [w EXCEPT !.shared = TRUE, !.buffer.refs = @ + 1]
    ELSE w

\* mCachedBuffer when EncodeToStringWithMaxLength returns and output is
\* destroyed: a call that returns before output exists leaves the member.
CachedBufferAtReturn(w) ==
  IF w.buffer = NoStringBuffer THEN mCachedBuffer
  ELSE IF w.cached THEN [w.buffer EXCEPT !.refs = @ - 1]
  ELSE NoStringBuffer

\* The pass of EncodeToStringWithMaxLength once the serializer is known:
\* the walk of the scope, then FlushAndFinish.
EncodePass(w0, aMaxLength) ==
  EnsureSuccess(
    SerializeDependingOnScope(w0, mEncodingScope, aMaxLength),
    LAMBDA w : SetOutputString(Grown(Emit(w, Event("finish", Null, 0, 0)))))

\* Whether the call gets as far as SerializeDependingOnScope.
ReachesThePass == mDocument # Null /\ CreatedSerializer # nullptr

\* EncodeToStringWithMaxLength from its first statement to its return
\* statement, w0 being the walk before the first call of the serializer.
EncodeToStringWithMaxLength(w0, aMaxLength) ==
  IF mDocument = Null THEN Return(w0, NS_ERROR_NOT_INITIALIZED)
  ELSE IF CreatedSerializer = nullptr
    THEN Return(WithOutputBuffer(w0), NS_ERROR_NOT_IMPLEMENTED)
  ELSE EncodePass(WithOutputBuffer(w0), aMaxLength)

\* aOutputString after the call that gave w, when the caller passed an
\* empty string.
OutputString(w) == IF w.rv = NS_OK THEN OutputOf(w.ser.log) ELSE <<>>

\* What EncodeToString returned, with the document, the scope and the
\* suppression flag it was called with, what the pass w sent to the
\* serializer, and the range contexts the pass left for the guard of the
\* call.
Returned(w) ==
  [op |-> "EncodeToString", rv |-> w.rv, scope |-> mEncodingScope,
   disabled |-> mRangeContextSerializer.mDisableContextSerialize,
   log |-> w.ser.log, hist |-> w.hist, failed |-> SerializerFailed(w),
   crashed |-> w.crashed, calls |-> w.ser.calls, failAt |-> w.ser.failAt,
   contexts |-> w.rcs.mRangeContexts, walked |-> ReachesThePass,
   document |-> mDocument, allocated |-> w.allocated, shared |-> w.shared,
   buffer |-> w.buffer, cacheBefore |-> mCachedBuffer]

\* ~AutoReleaseDocumentIfNeeded finds RequiresReinitAfterOutput in the flags.
ReleasesDocument(w) ==
  mDocument # Null /\ RequiresReinitAfterOutput \in mFlags /\ ~w.crashed

\* The guard that leaves the range contexts as they are.
RangeContextGuard_NoClear(rcs) == rcs

\* rangeContextGuard: mRangeContexts.Clear() when the call returns.
RangeContextGuard(rcs) == [rcs EXCEPT !.mRangeContexts = <<>>]

\* The scope that never is cleared.
ScopeAtReturn_Kept(w) == mEncodingScope

\* mEncodingScope when EncodeToStringWithMaxLength returns: it is cleared
\* by SerializeDependingOnScope after the walk and by the Initialize of
\* ~AutoReleaseDocumentIfNeeded.
ScopeAtReturn(w) ==
  IF w.crashed THEN mEncodingScope
  ELSE IF ReachesThePass \/ ReleasesDocument(w) THEN EmptyScope
  ELSE mEncodingScope

\* The exits of the scopes of EncodeToStringWithMaxLength after the pass w:
\* ~AutoReleaseDocumentIfNeeded, then the guard of the range contexts.  A
\* failed release assertion ends the process where it is.
LeaveEncodePassMembers(w) ==
  /\ mEncodingScope' = ScopeAtReturn(w)
  /\ mDocument' = IF ReleasesDocument(w) THEN Null ELSE mDocument
  /\ mFlags' = IF ReleasesDocument(w) THEN {} ELSE mFlags
  /\ mRangeContextSerializer' =
       IF w.crashed THEN w.rcs
       ELSE RangeContextGuard(
              [w.rcs EXCEPT !.mDisableContextSerialize = ~ReleasesDocument(w) /\ @])
  /\ mMimeType' = MimeTypeToEncode
  /\ mSerializer' = IF mDocument = Null THEN mSerializer ELSE CreatedSerializer
  /\ mCachedBuffer' = IF w.crashed THEN mCachedBuffer ELSE CachedBufferAtReturn(w)

\* The same with the range serializer, for a caller that does not touch it
\* after the pass.
LeaveEncodePass(w) ==
  /\ LeaveEncodePassMembers(w)
  /\ mRangeSerializer' =
       IF ReleasesDocument(w) THEN InitializedRangeSerializer(w.rs, FALSE) ELSE w.rs

\* What the build can make of a read of the buffer of the streamer.
OutcomesOf(ts) == IF ts.isSome /\ ts.dangling THEN UseAfterScopeOutcomes ELSE {"short"}

\* EncodeToString after the pass w.  What a streamer whose buffer is gone
\* wrote during the pass is in the sink, which the encoder does not own.
LeaveEncodeToString(w) ==
  /\ ret' = Returned(w)
  /\ LeaveEncodePass(w)
  /\ UNCHANGED mTextStreamer

\* EncodeToString: EncodeToStringWithMaxLength(0).
EncodeToString(failAt) ==
  /\ ~Crashed
  /\ \E ub \in OutcomesOf(mTextStreamer) :
       LeaveEncodeToString(
         EncodeToStringWithMaxLength([NewWalk(failAt) EXCEPT !.ub = ub], 0))
  /\ UNCHANGED <<tree, isCopy, mIsTextWidget, mEncoding>>

\* What EncodeToStringWithMaxLength returned to a caller that gave it
\* aMaxLength.
ReturnedWithMaxLength(w, aMaxLength) ==
  [Returned(w) EXCEPT !.op = "EncodeToStringWithMaxLength"] @@ [maxLength |-> aMaxLength]

\* A call of EncodeToStringWithMaxLength with a length that is not 0.
CallEncodeToStringWithMaxLength(aMaxLength, failAt) ==
  /\ ~Crashed
  /\ aMaxLength # 0
  /\ \E ub \in OutcomesOf(mTextStreamer) :
       Let(EncodeToStringWithMaxLength([NewWalk(failAt) EXCEPT !.ub = ub], aMaxLength),
           LAMBDA w : ret' = ReturnedWithMaxLength(w, aMaxLength) /\ LeaveEncodePass(w))
  /\ UNCHANGED <<tree, isCopy, mIsTextWidget, mEncoding, mTextStreamer>>

\* Encoding::ForLabel: the encoding a label names, nullptr for a label
\* that names none.
ForLabel(aCharset) == IF aCharset \in Encodings THEN aCharset ELSE nullptr

\* nsDocumentEncoder::SetCharset
SetCharset(aCharset) ==
  /\ ~Crashed
  /\ mEncoding' = IF ForLabel(aCharset) = nullptr THEN mEncoding ELSE ForLabel(aCharset)
  /\ ret' = [op |-> "SetCharset",
             rv |-> IF ForLabel(aCharset) = nullptr THEN NS_ERROR_UCONV_NOCONV ELSE NS_OK]
  /\ UNCHANGED <<tree, isCopy, mDocument, mFlags, mEncodingScope, mRangeContextSerializer,
                 mRangeSerializer, mIsTextWidget, mMimeType, mSerializer, mTextStreamer,
                 mCachedBuffer>>

\* What EncodeToStream returned after the pass w and the flush f: rv is
\* what the caller gets, passRv what EncodeToString returned, stream the
\* sink, flushRv what ForceFlush returned, walkWrites the number of calls
\* of Write made before EncodeToString returned, output the text buf held
\* when it returned.
StreamReturned(w, f) ==
  [Returned(w) EXCEPT !.op = "EncodeToStream", !.rv = IF w.crashed THEN w.rv ELSE f.rv]
    @@ [passRv |-> w.rv, flushRv |-> f.rv, stream |-> f.ts.mStream,
        walkWrites |-> w.ts.mStream.calls,
        output |-> OutputString(w), encoding |-> f.ts.mUnicodeEncoder,
        plain |-> f.ts.mIsPlainText, entered |-> TRUE]

\* What EncodeToStream returned when it returned before it made a streamer.
StreamRejected(rv) ==
  [Returned(Return(NewWalk(0), rv)) EXCEPT !.op = "EncodeToStream", !.walked = FALSE]
    @@ [entered |-> FALSE]

\* mTextStreamer when EncodeToStream returns after the flush f: reset after
\* a flush that succeeded, and left with a reference to the local buf, which
\* is gone, after one that failed.
StreamerAtReturn(f) ==
  IF f.rv = NS_OK THEN Nothing ELSE [f.ts EXCEPT !.dangling = TRUE]

\* EncodeToStream from rv = mTextStreamer->ForceFlush() on, after the pass w.
LeaveEncodeToStream(w, f) ==
  /\ ret' = StreamReturned(w, f)
  /\ LeaveEncodePass(w)
  /\ mTextStreamer' = IF w.crashed THEN w.ts ELSE StreamerAtReturn(f)

\* The buffer buf of EncodeToStream when EncodeToString has returned w, in
\* the streamer that refers to it.
StreamerAfterPass(w) == [w.ts EXCEPT !.mOutputBuffer = OutputString(w)]

\* EncodeToStream from the return of EncodeToString on.
FlushAndLeaveEncodeToStream(w) == LeaveEncodeToStream(w, ForceFlush(StreamerAfterPass(w)))

\* What mTextStreamer.emplace does: it makes the streamer, and when
\* mTextStreamer holds one already, its assertion ends the process in the
\* builds that keep the assertion.
EmplaceOutcomes(ts) == IF ts.isSome THEN {"crash", "emplace"} ELSE {"emplace"}

\* The nsresult of the checks EncodeToStream makes before it makes the
\* streamer.
CheckStream(aStream) ==
  IF aStream = NullStream THEN NS_ERROR_NULL_POINTER
  ELSE IF mDocument = Null THEN NS_ERROR_NOT_INITIALIZED
  ELSE IF mEncoding = nullptr THEN NS_ERROR_UCONV_NOCONV
  ELSE NS_OK

\* nsDocumentEncoder::EncodeToStream: aStream is NullStream or a sink.  The
\* streamer refers to buf, the string EncodeToString is called with, which
\* EncodeToStringWithMaxLength truncates and assigns when the pass has
\* succeeded; the serializer writes to the local string output.
EncodeToStream(aStream, failAt) ==
  /\ ~Crashed
  /\ \E emplace \in EmplaceOutcomes(mTextStreamer) :
       IF CheckStream(aStream) # NS_OK
         THEN /\ ret' = StreamRejected(CheckStream(aStream))
              /\ mRangeContextSerializer' = RangeContextGuard(mRangeContextSerializer)
              /\ UNCHANGED <<mDocument, mFlags, mEncodingScope, mRangeSerializer,
                             mMimeType, mSerializer, mTextStreamer, mCachedBuffer>>
         ELSE IF emplace = "crash"
           THEN /\ ret' = [StreamRejected("CRASH") EXCEPT !.crashed = TRUE]
                /\ UNCHANGED <<mDocument, mFlags, mEncodingScope, mRangeSerializer,
                               mRangeContextSerializer, mMimeType, mSerializer,
                               mTextStreamer, mCachedBuffer>>
           ELSE FlushAndLeaveEncodeToStream(
                  EncodeToStringWithMaxLength(
                    [NewWalk(failAt) EXCEPT
                       !.ts = TextStreamer(aStream, mEncoding, mMimeType = kTextMime, <<>>)],
                    0))
  /\ UNCHANGED <<tree, isCopy, mIsTextWidget, mEncoding>>

\* The lengths EncodeToStringWithMaxLength is called with: the small ones,
\* and some from 2^31 on.
MaxLengths == 1..MaxMaxLength \cup {INT32_MAX, INT32_MIN, INT32_MIN + 1, UINT32_MAX}

Init ==
  /\ tree \in Documents
  /\ isCopy \in BOOLEAN
  /\ mDocument = Null
  /\ mFlags = {}
  /\ mEncodingScope = EmptyScope
  /\ mRangeContextSerializer = NewRangeContextSerializer
  /\ mRangeSerializer = NewRangeSerializer
  /\ mIsTextWidget = FALSE
  /\ mMimeType = kTextMime
  /\ mEncoding = nullptr
  /\ mSerializer = nullptr
  /\ mTextStreamer = Nothing
  /\ mCachedBuffer = NoStringBuffer
  /\ ret = [op |-> "none"]

Next ==
  \/ \E aFlags \in ApiFlagSets[tree.name] : EncoderInit(kHTMLMime, aFlags)
  \/ \E aSelection \in ApiSelections[tree.name] : SetSelection(aSelection)
  \/ \E aRange \in ApiRanges[tree.name] : SetRange(aRange)
  \/ \E aNode \in ApiNodes[tree.name] : SetNode(aNode)
  \/ \E aContainer \in ApiNodes[tree.name] : SetContainerNode(aContainer)
  \/ \E failAt \in 0..MaxFailAt : EncodeToString(failAt)
  \/ \E aMaxLength \in MaxLengths, failAt \in {0, MaxFailAt} :
       CallEncodeToStringWithMaxLength(aMaxLength, failAt)

Spec == Init /\ [][Next]_vars

(***************************************************************************)
(* The walk of a node: an encoder initialized for text/html is given a     *)
(* node or a container node of a tree with templates, a shadow host or a   *)
(* slot, and encodes it.                                                   *)
(***************************************************************************)
NodeDocuments == {DocInline, DocTemplate, DocShadow, DocSlot}

NodeFlagSets == SUBSET {SkipInvisibleContent, AllowCrossShadowBoundary}

InitNode ==
  /\ tree \in NodeDocuments
  /\ isCopy = FALSE
  /\ mDocument = 1
  /\ mFlags \in NodeFlagSets
  /\ mEncodingScope = EmptyScope
  /\ mRangeContextSerializer = NewRangeContextSerializer
  /\ mRangeSerializer =
       InitializedRangeSerializer(NewRangeSerializer, AllowCrossShadowBoundary \in mFlags)
  /\ mIsTextWidget = FALSE
  /\ InitializedForHTML
  /\ ret = [op |-> "none"]

NextNode ==
  \/ \E aNode \in NodesOf(tree) : SetNode(aNode)
  \/ \E aContainer \in NodesOf(tree) : SetContainerNode(aContainer)
  \/ \E failAt \in 0..MaxFailAt : EncodeToString(failAt)

SpecNode == InitNode /\ [][NextNode]_vars

(***************************************************************************)
(* Properties of the encoder.                                              *)
(***************************************************************************)
Encoded == ret.op = "EncodeToString"

\* The encoder had a document and walked the scope it was given.
Walked == Encoded /\ ret.rv # NS_ERROR_NOT_INITIALIZED

\* The scope is a selection whose ranges all start in rows of one parent.
RowsSelected(aScope) ==
  /\ aScope.mSelection.set
  /\ aScope.mSelection.ranges # <<>>
  /\ \A k \in DOMAIN aScope.mSelection.ranges :
       /\ IsRowOfCells(aScope.mSelection.ranges[k].sc)
       /\ GetParentNode(tree, aScope.mSelection.ranges[k].sc)
            = GetParentNode(tree, aScope.mSelection.ranges[1].sc)

\* The rows a selection of rows starts in.
RowsOf(aScope) ==
  {aScope.mSelection.ranges[k].sc : k \in DOMAIN aScope.mSelection.ranges}

\* The context of a row: the nodes a SerializeRangeContextStart that is not
\* suppressed serializes for the ancestors of the parent of the row.
ContextOfRow(row) ==
  SerializeRangeContextStart(
    [NewWalk(0) EXCEPT !.rcs = NewRangeContextSerializer],
    InclusiveAncestorsOf(tree, GetParentNode(tree, row))).rcs.mRangeContexts[1]

\* The positions of a log where the serializer received an event about a node.
PositionsOf(log, op, n) == {k \in DOMAIN log : log[k].op = op /\ log[k].node = n}

\* C4 as stated: when the serializer accepts every call of a pass over a
\* selection of rows, each node of the context of the rows is started exactly
\* once, before the start of every row, and ended exactly once, after the end
\* of every row.
C4_Original ==
  (Walked /\ RowsSelected(ret.scope) /\ ~ret.failed) =>
    \A c \in SeqToSet(ContextOfRow(ret.scope.mSelection.ranges[1].sc)) :
      /\ Cardinality(PositionsOf(ret.log, "start", c)) = 1
      /\ Cardinality(PositionsOf(ret.log, "end", c)) = 1
      /\ \A row \in RowsOf(ret.scope) :
           /\ \A k \in PositionsOf(ret.log, "start", c),
                 m \in PositionsOf(ret.log, "start", row) : k < m
           /\ \A k \in PositionsOf(ret.log, "end", c),
                 m \in PositionsOf(ret.log, "end", row) : m < k

\* The Start a SerializeRangeContextEnd matches: the latest before it that
\* left the stack as deep as the End found it, or 0.
MatchingStart(hist, k) ==
  IF \E s \in 1..(k - 1) : hist[s].call = "Start" /\ hist[s].depth = hist[k].depth
    THEN CHOOSE s \in 1..(k - 1) :
           /\ hist[s].call = "Start" /\ hist[s].depth = hist[k].depth
           /\ \A t \in (s + 1)..(k - 1) :
                ~(hist[t].call = "Start" /\ hist[t].depth = hist[k].depth)
    ELSE 0

\* C5 as stated: when the serializer accepts every call of a pass, every
\* SerializeRangeContextEnd that is not suppressed pops the list the latest
\* unmatched SerializeRangeContextStart pushed and ends the nodes of that
\* list, the last started first.
C5_Original ==
  (Walked /\ ~ret.failed) =>
    \A k \in DOMAIN ret.hist :
      ret.hist[k].call = "End" =>
        /\ MatchingStart(ret.hist, k) # 0
        /\ ret.hist[k].nodes = ret.hist[MatchingStart(ret.hist, k)].nodes
        /\ ret.hist[k].ended = Reverse(ret.hist[k].nodes)

\* C10 as stated: whatever setters were called, at most one of the
\* selection, the range and the node of the encoding scope is populated.
C10_Original ==
  Cardinality({v \in {"mSelection", "mRange", "mNode"} :
                 \/ v = "mSelection" /\ mEncodingScope.mSelection.set
                 \/ v = "mRange" /\ mEncodingScope.mRange.sc # Null
                 \/ v = "mNode" /\ mEncodingScope.mNode # Null}) <= 1

(***************************************************************************)
(* The encoder with its output: the calls above and SetCharset and         *)
(* EncodeToStream, on documents with short and with long texts.            *)
(***************************************************************************)
StreamDocuments == {DocInline, DocShadow, DocTable, DocLong, DocWide}

\* Which encoders work on a document.
StreamEncoders ==
  [inline |-> BOOLEAN, shadow |-> {FALSE}, table |-> {TRUE}, long |-> {FALSE},
   wide |-> {FALSE}]

StreamMimeTypes ==
  [inline |-> {kTextMime, kHTMLMime, "image/png"},
   shadow |-> {kHTMLMime},
   table  |-> {kHTMLMime},
   long   |-> {kTextMime},
   wide   |-> {kTextMime, kHTMLMime}]

StreamCharsets ==
  [inline |-> {"UTF-8", "no-such-charset"},
   shadow |-> {"UTF-8"},
   table  |-> {"UTF-8"},
   long   |-> {"UTF-8"},
   wide   |-> {"UTF-8", "windows-1252"}]

StreamFlagSets ==
  [inline |-> {{}, {RequiresReinitAfterOutput}},
   shadow |-> {{AllowCrossShadowBoundary}},
   table  |-> {{}, {RequiresReinitAfterOutput}},
   long   |-> {{}},
   wide   |-> {{}}]

StreamNodes ==
  [inline |-> {3}, shadow |-> {3}, table |-> {}, long |-> {4}, wide |-> {}]

StreamRanges ==
  [inline |-> {Range(6, 0, 6, 2)}, shadow |-> {}, table |-> {},
   long |-> {Range(4, 0, 4, 2)}, wide |-> {}]

StreamSelections ==
  [inline |-> {<<Range(6, 0, 6, 2)>>},
   shadow |-> {},
   table  |-> {<<Range(5, 0, 5, 1), Range(5, 1, 5, 2)>>},
   long   |-> {},
   wide   |-> {}]

\* The calls of the serializer that fail.
StreamFailAt ==
  [inline |-> 0..MaxFailAt, shadow |-> 0..MaxFailAt, table |-> 0..MaxFailAt,
   long |-> {0, 1}, wide |-> {0}]

\* The sinks: none, one that accepts every write, and those that fail from
\* their first or their second write on.
Streams ==
  [inline |-> {NullStream} \cup {NewStream(failAt) : failAt \in 0..MaxWriteFailAt},
   shadow |-> {NewStream(0)},
   table  |-> {NewStream(0)},
   long   |-> {NewStream(failAt) : failAt \in 0..MaxWriteFailAt},
   wide   |-> {NewStream(failAt) : failAt \in 0..MaxWriteFailAt}]

\* MOZ_ASSERT(mRangeContexts.IsEmpty(), "Re-entrant call to
\* nsDocumentEncoder.") at the start of EncodeToStringWithMaxLength and of
\* EncodeToStream: whether it ends the process.  debug tells whether the
\* build keeps MOZ_ASSERT.
ReentrancyAssertionFails(rcs, debug) == debug /\ rcs.mRangeContexts # <<>>

\* What is known of an encode call that began during the at-th call the
\* pass outer made of the serializer.
Reentered(outer, at, debug) ==
  [op |-> "ReentrantEncode", at |-> at, debug |-> debug, scope |-> mEncodingScope,
   contexts |-> outer.rcs.mRangeContexts,
   rejected |-> ReentrancyAssertionFails(outer.rcs, debug)]

\* The at-th call a pass of EncodeToString makes of the content serializer
\* calls back into EncodeToStringWithMaxLength or EncodeToStream of the same
\* encoder.  The pass up to that call is the pass that stops at it.
ReentrantEncode(at, debug) ==
  /\ ~Crashed
  /\ ReachesThePass
  /\ SerializerFailed(EncodeToStringWithMaxLength(NewWalk(at), 0))
  /\ ret' = Reentered(EncodeToStringWithMaxLength(NewWalk(at), 0), at, debug)
  /\ UNCHANGED <<tree, isCopy, mDocument, mFlags, mEncodingScope, mRangeContextSerializer,
                 mRangeSerializer, mIsTextWidget>>
  /\ UNCHANGED outputVars

InitStream ==
  /\ tree \in StreamDocuments
  /\ isCopy \in StreamEncoders[tree.name]
  /\ mDocument = Null
  /\ mFlags = {}
  /\ mEncodingScope = EmptyScope
  /\ mRangeContextSerializer = NewRangeContextSerializer
  /\ mRangeSerializer = NewRangeSerializer
  /\ mIsTextWidget = FALSE
  /\ mMimeType = kTextMime
  /\ mEncoding = nullptr
  /\ mSerializer = nullptr
  /\ mTextStreamer = Nothing
  /\ mCachedBuffer = NoStringBuffer
  /\ ret = [op |-> "none"]

NextStream ==
  \/ \E aMimeType \in StreamMimeTypes[tree.name], aFlags \in StreamFlagSets[tree.name] :
       EncoderInit(aMimeType, aFlags)
  \/ \E aCharset \in StreamCharsets[tree.name] : SetCharset(aCharset)
  \/ \E aSelection \in StreamSelections[tree.name] : SetSelection(aSelection)
  \/ \E aRange \in StreamRanges[tree.name] : SetRange(aRange)
  \/ \E aNode \in StreamNodes[tree.name] : SetNode(aNode)
  \/ \E failAt \in StreamFailAt[tree.name] : EncodeToString(failAt)
  \/ \E aStream \in Streams[tree.name], failAt \in StreamFailAt[tree.name] :
       EncodeToStream(aStream, failAt)
  \/ \E at \in StreamFailAt[tree.name] \ {0}, debug \in BOOLEAN : ReentrantEncode(at, debug)

SpecStream == InitStream /\ [][NextStream]_vars

\* EncodeToString or EncodeToStream returned to its caller.
EncodeReturned == ret.op \in {"EncodeToString", "EncodeToStream"} /\ ~ret.crashed

C13_NoRangeContextsAfterReturn ==
  EncodeReturned => mRangeContextSerializer.mRangeContexts = <<>>

\* A walk of a range or of a selection returned early with a failure and
\* left a context on the stack, and the stack is empty after the call.
C13_Witness ==
  /\ EncodeReturned
  /\ ret.failed
  /\ ret.rv # NS_OK
  /\ ret.contexts # <<>>
  /\ mRangeContextSerializer.mRangeContexts = <<>>

\* What the pass of the last encode call returned.
PassRv == IF ret.op = "EncodeToStream" /\ ret.entered THEN ret.passRv ELSE ret.rv

\* C14 as stated: when the serializer fails a call of an encode pass, the
\* pass makes no further call of the serializer and returns a failure.
C14_Original ==
  EncodeReturned /\ ret.failed => ret.calls = ret.failAt /\ PassRv # NS_OK

\* EncodeToStream made a streamer, ran the pass and returned.
Streamed == EncodeReturned /\ ret.op = "EncodeToStream" /\ ret.entered

\* C15 as stated: when the pass inside EncodeToStream fails, EncodeToStream
\* returns a failure, whatever the final flush returns.
C15_Original == Streamed /\ ret.passRv # NS_OK => ret.rv # NS_OK

\* C16 as stated: when the output of a pass of EncodeToStream is longer
\* than 1024 code units, Write is called before the walk is over, and for
\* the document with the text node of 2000 characters Write is called at
\* least twice.
C16_Original ==
  Streamed /\ ret.passRv = NS_OK /\ TextLength(ret.output) > kMaxLengthBeforeFlush =>
    /\ ret.walkWrites >= 1
    /\ tree.name = "long" => ret.stream.calls >= 2

\* The bytes of a character in the encoding of a whole text: those of the
\* encoding, or what stands for a character the encoding does not map.
TranscodedUnit(enc, plain, c) ==
  IF ~IsUnmappable(enc, c) THEN BytesOf(enc, c)
  ELSE IF plain THEN QuestionMark ELSE CharacterReference

RECURSIVE Transcoded(_, _, _)
\* A whole text in an encoding, character by character.
Transcoded(enc, plain, text) ==
  IF text = <<>> THEN <<>>
  ELSE AppendText(<<Run(TranscodedUnit(enc, plain, Head(text).c), Head(text).n)>>,
                  Transcoded(enc, plain, Tail(text)))

RECURSIVE Concatenation(_)
\* The chunks of a sequence of chunks, one after the other.
Concatenation(chunks) ==
  IF chunks = <<>> THEN <<>> ELSE AppendText(Head(chunks), Concatenation(Tail(chunks)))

\* C17: when the pass of an EncodeToStream succeeds and the sink accepts
\* every write, the chunks given to Write, in the order of the calls, make
\* up the serialized text in the encoding of the encoder, every code unit
\* once; no chunk is longer than the 4095 bytes of dst.
C17_WritesAreTheTranscoding ==
  Streamed /\ ret.passRv = NS_OK /\ ~WriteFailed(ret.stream) =>
    /\ Concatenation(ret.stream.writes)
         = Transcoded(ret.encoding, ret.plain, OutputOf(ret.log))
    /\ \A k \in DOMAIN ret.stream.writes :
         ChunkLength(ret.stream.writes[k]) <= kEncoderBufferSizeInBytes - 1

\* A text was written in UTF-8 in two chunks, the first one ending a byte
\* short of 4095 because the two bytes of the next character did not fit.
C17_Witness ==
  /\ Streamed
  /\ ret.passRv = NS_OK
  /\ ~WriteFailed(ret.stream)
  /\ ret.encoding = "UTF-8"
  /\ Len(ret.stream.writes) = 2
  /\ ChunkLength(ret.stream.writes[1]) = kEncoderBufferSizeInBytes - 2
  /\ ret.stream.writes[2] # <<>>

\* C12 as stated: an encode call that begins while a pass of the same
\* encoder is running is rejected by the re-entrancy assertion, whatever
\* the scope of the pass.
C12_Original == ret.op = "ReentrantEncode" => ret.rejected

(***************************************************************************)
(* nsIDocumentEncoder::EncodeToStringWithContext, of nsDocumentEncoder and *)
(* of nsHTMLCopyEncoder.                                                   *)
(***************************************************************************)
\* mRangeSerializer when EncodeToStringWithMaxLength returns.
RangeSerializerAtReturn(w) ==
  IF ReleasesDocument(w) THEN InitializedRangeSerializer(w.rs, FALSE) ELSE w.rs

\* Whether the first of the common inclusive ancestors is a text node.
LeafIsText(rs) ==
  rs.mCommonInclusiveAncestors # <<>> /\ IsText(tree, rs.mCommonInclusiveAncestors[1])

\* The common ancestors with their leaf, whatever it is.
DiscardTextLeaf_Kept(rs) == rs

\* "leaf of ancestors might be text node.  If so discard it."
DiscardTextLeaf(rs) ==
  IF LeafIsText(rs)
    THEN [rs EXCEPT !.mCommonInclusiveAncestors = Tail(@),
                    !.mContextInfoDepth.mStart = IF @ # 0 THEN @ - 1 ELSE @,
                    !.mContextInfoDepth.mEnd = IF @ # 0 THEN @ - 1 ELSE @]
    ELSE rs

\* mNodeSerializer.SerializeNodeStart(*node, 0, -1) for a common ancestor:
\* an encoder that released its document has no flags left.
ContextNodeStart(w, node, released) ==
  IF ~released THEN SerializeNodeStart(w, node, 0, -1)
  ELSE IF IsElement(tree, node) THEN Emit(w, Event("start", node, 0, 0))
  ELSE Return(w, NS_OK)

\* mNodeSerializer.SerializeNodeEnd(*node) for a common ancestor.
ContextNodeEnd(w, node, released) ==
  IF ~released THEN SerializeNodeEnd(w, node)
  ELSE IF IsElement(tree, node) THEN Emit(w, Event("end", node, 0, 0))
  ELSE Return(w, NS_OK)

RECURSIVE SerializeContextStarts(_, _, _, _)
\* while (i > 0): the starts of the common ancestors, the outermost first.
SerializeContextStarts(w, nodes, i, released) ==
  IF i <= 0 THEN Return(w, NS_OK)
  ELSE EnsureSuccess(
         ContextNodeStart(w, ElementAt(nodes, i - 1), released),
         LAMBDA w1 : SerializeContextStarts(w1, nodes, i - 1, released))

RECURSIVE SerializeContextEnds(_, _, _, _)
\* while (i < count): the ends of the common ancestors, the innermost first.
SerializeContextEnds(w, nodes, i, released) ==
  IF i >= Len(nodes) THEN Return(w, NS_OK)
  ELSE EnsureSuccess(
         ContextNodeEnd(w, ElementAt(nodes, i), released),
         LAMBDA w1 : SerializeContextEnds(w1, nodes, i + 1, released))

\* nsHTMLCopyEncoder::EncodeToStringWithContext from mSerializer->Init on
\* aContextString, after EncodeToString gave w: the serializer starts a new
\* string and goes on counting its calls.
SerializeContext(w, released) ==
  Let([w EXCEPT !.ser.log = <<>>, !.rs = DiscardTextLeaf(RangeSerializerAtReturn(w))],
      LAMBDA w0 :
        EnsureSuccess(
          SerializeContextStarts(w0, w0.rs.mCommonInclusiveAncestors,
                                 Len(w0.rs.mCommonInclusiveAncestors), released),
          LAMBDA w1 :
            EnsureSuccess(
              SerializeContextEnds(w1, w1.rs.mCommonInclusiveAncestors, 0, released),
              LAMBDA w2 : Emit(w2, Event("finish", Null, 0, 0)))))

\* aInfoString: the two depths, as the numbers AppendInt writes.
InfoString(rs) == <<rs.mContextInfoDepth.mStart, rs.mContextInfoDepth.mEnd>>

\* What EncodeToStringWithContext returned when EncodeToString gave w and
\* nothing was written to aContextString and aInfoString.  before is the
\* range serializer the call found.
WithoutContext(w, rv) ==
  [Returned(w) EXCEPT !.op = "EncodeToStringWithContext", !.rv = rv]
    @@ [context |-> <<>>, info |-> <<>>, withContext |-> FALSE,
        before |-> mRangeSerializer, copy |-> isCopy]

\* What it returned when the serialization of the context gave c.
WithContext(w, c) ==
  [Returned(w) EXCEPT !.op = "EncodeToStringWithContext", !.rv = c.rv,
                      !.calls = c.ser.calls, !.failed = SerializerFailed(c)]
    @@ [context |-> c.ser.log,
        info |-> IF c.rv = NS_OK THEN InfoString(c.rs) ELSE <<>>,
        withContext |-> TRUE, before |-> mRangeSerializer, copy |-> isCopy]

\* nsHTMLCopyEncoder::EncodeToStringWithContext after its call of
\* EncodeToString gave w.
LeaveEncodeToStringWithContext(w) ==
  /\ LeaveEncodePassMembers(w)
  /\ IF w.crashed \/ w.rv # NS_OK
       THEN /\ ret' = WithoutContext(w, w.rv)
            /\ mRangeSerializer' = RangeSerializerAtReturn(w)
       ELSE IF mIsTextWidget
         THEN /\ ret' = WithoutContext(w, NS_OK)
              /\ mRangeSerializer' = RangeSerializerAtReturn(w)
         ELSE /\ ret' = WithContext(w, SerializeContext(w, ReleasesDocument(w)))
              /\ mRangeSerializer' = SerializeContext(w, ReleasesDocument(w)).rs

\* nsDocumentEncoder::EncodeToStringWithContext
BaseEncodeToStringWithContext ==
  /\ ~isCopy
  /\ ret' = [WithoutContext(NewWalk(0), NS_ERROR_NOT_IMPLEMENTED) EXCEPT !.walked = FALSE]
  /\ UNCHANGED <<mDocument, mFlags, mEncodingScope, mRangeContextSerializer,
                 mRangeSerializer, mMimeType, mSerializer, mCachedBuffer>>

\* nsHTMLCopyEncoder::EncodeToStringWithContext
CopyEncodeToStringWithContext(failAt) ==
  /\ isCopy
  /\ \E ub \in OutcomesOf(mTextStreamer) :
       LeaveEncodeToStringWithContext(
         EncodeToStringWithMaxLength([NewWalk(failAt) EXCEPT !.ub = ub], 0))

EncodeToStringWithContext(failAt) ==
  /\ ~Crashed
  /\ BaseEncodeToStringWithContext \/ CopyEncodeToStringWithContext(failAt)
  /\ UNCHANGED <<tree, isCopy, mIsTextWidget, mEncoding, mTextStreamer>>

(***************************************************************************)
(* The encoders as a copy to the clipboard uses them: a scope is set and   *)
(* encoded, with or without its context.                                   *)
(***************************************************************************)
ContextDocuments ==
  {DocInline, DocNested, DocEditable, DocTable, DocDepths, DocBreak, DocWidget}

ContextEncoders ==
  [inline |-> BOOLEAN, nested |-> {TRUE}, editable |-> {TRUE}, table |-> {TRUE},
   depths |-> {TRUE}, break |-> {FALSE}, widget |-> {TRUE}]

ContextFlagSets ==
  [inline   |-> {{}},
   nested   |-> {{}, {RequiresReinitAfterOutput}},
   editable |-> {{}},
   table    |-> {{}},
   depths   |-> {{}},
   break    |-> {{}, {OutputDropInvisibleBreak}, {OutputPreformatted}},
   widget   |-> {{}}]

ContextRanges ==
  [inline   |-> {Range(6, 0, 6, 2), Range(4, 1, 7, 1)},
   nested   |-> {Range(4, 0, 7, 1), Range(7, 0, 9, 1), Range(4, 0, 9, 1)},
   editable |-> {Range(6, 0, 9, 1)},
   table    |-> {Range(9, 0, 12, 1)},
   depths   |-> {Range(7, 1, 9, 1)},
   break    |-> {Range(6, 0, 3, 3)},
   widget   |-> {Range(7, 0, 7, 1)}]

ContextSelections ==
  [inline   |-> {<<Range(6, 0, 6, 2)>>},
   nested   |-> {<<Range(7, 0, 9, 1), Range(4, 0, 4, 1)>>,
                 <<Range(4, 0, 7, 1), Range(9, 1, 9, 1)>>},
   editable |-> {},
   table    |-> {},
   depths   |-> {<<Range(4, 1, 7, 1), Range(7, 1, 9, 1)>>,
                 <<Range(4, 1, 4, 1), Range(4, 1, 7, 1)>>,
                 <<Range(4, 1, 7, 1), Range(9, 0, 9, 1)>>},
   break    |-> {<<Range(3, 1, 3, 3)>>},
   widget   |-> {<<Range(5, 0, 5, 2)>>}]

ContextNodes ==
  [inline |-> {5}, nested |-> {3}, editable |-> {}, table |-> {}, depths |-> {},
   break |-> {3}, widget |-> {}]

\* The calls of the serializer that fail: none, one of the pass, one of the
\* serialization of the context.
ContextFailAt ==
  [inline |-> {0, 2, 5}, nested |-> {0, 2}, editable |-> {0}, table |-> {0},
   depths |-> {0}, break |-> {0}, widget |-> {0}]

InitContext ==
  /\ tree \in ContextDocuments
  /\ isCopy \in ContextEncoders[tree.name]
  /\ mDocument = Null
  /\ mFlags = {}
  /\ mEncodingScope = EmptyScope
  /\ mRangeContextSerializer = NewRangeContextSerializer
  /\ mRangeSerializer = NewRangeSerializer
  /\ mIsTextWidget = FALSE
  /\ mMimeType = kTextMime
  /\ mEncoding = nullptr
  /\ mSerializer = nullptr
  /\ mTextStreamer = Nothing
  /\ mCachedBuffer = NoStringBuffer
  /\ ret = [op |-> "none"]

NextContext ==
  \/ \E aFlags \in ContextFlagSets[tree.name] : EncoderInit(kHTMLMime, aFlags)
  \/ \E aSelection \in ContextSelections[tree.name] : SetSelection(aSelection)
  \/ \E aRange \in ContextRanges[tree.name] : SetRange(aRange)
  \/ \E aNode \in ContextNodes[tree.name] : SetNode(aNode)
  \/ \E failAt \in ContextFailAt[tree.name] : EncodeToString(failAt)
  \/ \E failAt \in ContextFailAt[tree.name] : EncodeToStringWithContext(failAt)

SpecContext == InitContext /\ [][NextContext]_vars

\* EncodeToStringWithContext returned the two strings and the depths.
ContextReturned ==
  ret.op = "EncodeToStringWithContext" /\ ret.withContext /\ ret.rv = NS_OK

\* The ranges of the scope a pass serialized, in the order of the pass.
RangesOfScope(aScope) ==
  IF aScope.mSelection.set THEN aScope.mSelection.ranges
  ELSE IF aScope.mRange.sc # Null THEN <<aScope.mRange>>
  ELSE <<>>

RECURSIVE LevelsBelow(_, _, _)
\* The elements among the inclusive ancestors arr (the innermost first)
\* that are below common, the outermost first.
LevelsBelow(arr, common, k) ==
  IF k > Len(arr) \/ arr[k] = common THEN <<>>
  ELSE IF IsElement(tree, arr[k])
    THEN Append(LevelsBelow(arr, common, k + 1), arr[k])
    ELSE LevelsBelow(arr, common, k + 1)

\* The ancestor levels between a boundary in container and the closest
\* common inclusive ancestor of aRange.
LevelsOf(container, aRange) ==
  LevelsBelow(InclusiveAncestorsOf(tree, container),
              GetClosestCommonInclusiveAncestor(aRange), 1)

\* The number of the levels whose node does not satisfy IncludeInContext.
LevelsNotInContext(levels) ==
  Cardinality({k \in DOMAIN levels : ~IncludeInContext(levels[k])})

\* The depths C19 states for aRange.
StatedDepths(aRange) ==
  <<LevelsNotInContext(LevelsOf(aRange.sc, aRange)),
    LevelsNotInContext(LevelsOf(aRange.ec, aRange))>>

RECURSIVE LevelsBeforeContext(_, _, _)
\* The number of the levels, from the outermost on, before the first whose
\* node satisfies IncludeInContext; none when halt is set already.
LevelsBeforeContext(levels, k, halt) ==
  IF halt \/ k > Len(levels) \/ IncludeInContext(levels[k]) THEN 0
  ELSE 1 + LevelsBeforeContext(levels, k + 1, halt)

\* Whether one of the levels has a node that satisfies IncludeInContext.
MeetsContext(levels) == \E k \in DOMAIN levels : IncludeInContext(levels[k])

\* The depths and the hint after a range that is not collapsed, when the
\* hint was halt before it: the start side is counted before the end side.
CountedInRange(aRange, halt) ==
  [mStart |-> LevelsBeforeContext(LevelsOf(aRange.sc, aRange), 1, halt),
   mEnd |-> LevelsBeforeContext(LevelsOf(aRange.ec, aRange), 1,
                                halt \/ MeetsContext(LevelsOf(aRange.sc, aRange))),
   halt |-> \/ halt
            \/ MeetsContext(LevelsOf(aRange.sc, aRange))
            \/ MeetsContext(LevelsOf(aRange.ec, aRange))]

RECURSIVE CountedInRanges(_, _, _)
\* The same after the ranges from the k-th on, in their order; a collapsed
\* range changes nothing.
CountedInRanges(ranges, k, acc) ==
  IF k > Len(ranges) THEN acc
  ELSE CountedInRanges(ranges, k + 1,
                       IF Collapsed(ranges[k]) THEN acc
                       ELSE CountedInRange(ranges[k], acc.halt))

\* What the range serializer held before the call.
CountedBefore ==
  [mStart |-> ret.before.mContextInfoDepth.mStart,
   mEnd |-> ret.before.mContextInfoDepth.mEnd,
   halt |-> ret.before.mHaltRangeHint]

\* The encoder released its document when the pass returned.
Released == ret.document # Null /\ mDocument = Null

\* The depths and the hint after the walk of a scope: those of its last
\* range that is not collapsed, but for a selection the start depth left
\* after its first range, which SerializeSelection puts back after its
\* loop (0 when the selection has no range).
CountedInScope(aScope, before) ==
  IF ~aScope.mSelection.set THEN CountedInRanges(RangesOfScope(aScope), 1, before)
  ELSE [CountedInRanges(aScope.mSelection.ranges, 1, before) EXCEPT
          !.mStart = IF aScope.mSelection.ranges = <<>> THEN 0
                     ELSE CountedInRanges(<<aScope.mSelection.ranges[1]>>, 1, before).mStart]

\* The ranges of a sequence that are not collapsed.
NotCollapsed(ranges) == SelectSeq(ranges, LAMBDA r : ~Collapsed(r))

\* The innermost of the common ancestors the walk of a scope leaves: the
\* common ancestor of its last range that is not collapsed, and without
\* such a range the one the range serializer held before.
LeafOfContext(aScope, rs) ==
  IF NotCollapsed(RangesOfScope(aScope)) # <<>>
    THEN GetClosestCommonInclusiveAncestor(
           NotCollapsed(RangesOfScope(aScope))[Len(NotCollapsed(RangesOfScope(aScope)))])
    ELSE IF rs.mCommonInclusiveAncestors # <<>> THEN rs.mCommonInclusiveAncestors[1]
    ELSE Null

\* A depth as EncodeToStringWithContext reports it: one less, when it is
\* not 0, if the innermost common ancestor is a text.
ReportedDepth(depth, leaf) ==
  IF IsText(tree, leaf) /\ depth # 0 THEN depth - 1 ELSE depth

\* The pair reported for the scope of the call that returned.
ReportedForScope ==
  <<ReportedDepth(CountedInScope(ret.scope, CountedBefore).mStart,
                  LeafOfContext(ret.scope, ret.before)),
    ReportedDepth(CountedInScope(ret.scope, CountedBefore).mEnd,
                  LeafOfContext(ret.scope, ret.before))>>

SeveralRangesReported ==
  /\ ContextReturned /\ ~Released
  /\ ret.scope.mSelection.set
  /\ Len(ret.scope.mSelection.ranges) >= 2

\* The depths the range serializer computes for one range of the scope.
DepthsOfRange(k) ==
  <<CountedInRanges(<<ret.scope.mSelection.ranges[k]>>, 1, CountedBefore).mStart,
    CountedInRanges(<<ret.scope.mSelection.ranges[k]>>, 1, CountedBefore).mEnd>>

CountedAfterInitialize == [mStart |-> 0, mEnd |-> 0, halt |-> FALSE]

\* The pair a freshly initialized encoder reports for the scope of the call
\* that returned.
ReportedWhenFresh ==
  <<ReportedDepth(CountedInScope(ret.scope, CountedAfterInitialize).mStart,
                  LeafOfContext(ret.scope, ret.before)),
    ReportedDepth(CountedInScope(ret.scope, CountedAfterInitialize).mEnd,
                  LeafOfContext(ret.scope, ret.before))>>

\* The scope of the call that returned has a range that is not collapsed.
WalkedARange ==
  ContextReturned /\ ~Released /\ NotCollapsed(RangesOfScope(ret.scope)) # <<>>

\* C36 as stated: the depths reported for a range depend on the tree, the
\* range and the flags only; an encoder that encoded other ranges or passes
\* before, without Init in between, reports the depths a freshly initialized
\* encoder reports.
C36_Original == WalkedARange => ret.info = ReportedWhenFresh

World == Range(6, 0, 6, 2)

\* The call encoded the range World of the document with the <b>, and the
\* serializer failed no call.
EncodedWorld ==
  /\ tree.name = "inline"
  /\ ret.op \in {"EncodeToString", "EncodeToStringWithContext"}
  /\ ret.document # Null
  /\ RangesOfScope(ret.scope) = <<World>>
  /\ ~ret.failed

\* The events of the text of World, of the tags of the nodes, and of Finish.
WorldText == Event("text", 6, 0, 2)

StartOf(n) == Event("start", n, 0, 0)

EndOf(n) == Event("end", n, 0, 0)

Finished == Event("finish", Null, 0, 0)

\* C20 as stated: the range encodes to the text alone, and with context to
\* the text alone, a context of the tags of the <b> only, and depths 0,0.
C20_Original ==
  /\ EncodedWorld => ret.rv = NS_OK /\ ret.log = <<WorldText, Finished>>
  /\ EncodedWorld /\ ret.op = "EncodeToStringWithContext" =>
       /\ ret.withContext
       /\ ret.context = <<StartOf(5), EndOf(5), Finished>>
       /\ ret.info = <<0, 0>>

\* C20: nsDocumentEncoder encodes the range to the text alone and does not
\* implement EncodeToStringWithContext; nsHTMLCopyEncoder encodes it to the
\* text inside the tags of the <b>, and with context to the same fragment,
\* a context of the tags of <body>, <p> and <b> nested in this order, and
\* the depths 0,0.
C20_WorldAndItsContext ==
  /\ EncodedWorld /\ ~isCopy /\ ret.op = "EncodeToString" =>
       ret.rv = NS_OK /\ ret.log = <<WorldText, Finished>>
  /\ EncodedWorld /\ ~isCopy /\ ret.op = "EncodeToStringWithContext" =>
       ret.rv = NS_ERROR_NOT_IMPLEMENTED /\ ~ret.withContext
  /\ EncodedWorld /\ isCopy =>
       ret.rv = NS_OK /\ ret.log = <<StartOf(5), WorldText, EndOf(5), Finished>>
  /\ EncodedWorld /\ isCopy /\ ret.op = "EncodeToStringWithContext" =>
       /\ ret.withContext
       /\ ret.context = <<StartOf(2), StartOf(3), StartOf(5),
                          EndOf(5), EndOf(3), EndOf(2), Finished>>
       /\ ret.info = <<0, 0>>

\* The copy encoder returned the fragment, the context and the depths of
\* World.
C20_Witness ==
  /\ EncodedWorld
  /\ isCopy
  /\ ret.op = "EncodeToStringWithContext"
  /\ ret.rv = NS_OK
  /\ Len(ret.context) = 7
  /\ ret.info = <<0, 0>>

\* EncodeToString returned from an encode of the whole document.
WholeDocumentEncoded ==
  ret.op = "EncodeToString" /\ ~ret.crashed /\ ret.scope = EmptyScope

\* The step is an EncodeToString of the whole document whose serializer
\* fails the same call as in the encode that just returned, if any.
EncodesWholeDocumentAgain ==
  /\ WholeDocumentEncoded
  /\ ret'.op = "EncodeToString"
  /\ ret'.scope = EmptyScope
  /\ ret'.failAt = ret.failAt

\* C21 as stated: the second of two consecutive encodes of the whole
\* document, with nothing done to the encoder in between, sends the
\* serializer the events of the first and returns what the first returned.
C21_Original ==
  [][EncodesWholeDocumentAgain =>
       /\ ret'.rv = ret.rv
       /\ ret'.log = ret.log
       /\ ret'.crashed = ret.crashed]_vars

\* An encode call returned to its caller.
AnyEncodeReturned ==
  ret.op \in {"EncodeToString", "EncodeToStream", "EncodeToStringWithContext"}
  /\ ~ret.crashed

\* C22: after an encode call the encoder keeps a buffer only if it is the
\* buffer of 2048 bytes and nobody else holds it: the string handed to the
\* caller does not share it.  A call that found no buffer kept allocated
\* one before it used the serializer, and a call that found one did not.
C22_CachedBufferIsNotShared ==
  /\ mCachedBuffer # NoStringBuffer =>
       mCachedBuffer.storage = kStringBufferSizeInBytes /\ mCachedBuffer.refs = 1
  /\ AnyEncodeReturned =>
       /\ ret.shared => mCachedBuffer = NoStringBuffer
       /\ ret.buffer # NoStringBuffer => (ret.allocated <=> ret.cacheBefore = NoStringBuffer)
       /\ ret.buffer = NoStringBuffer => mCachedBuffer = ret.cacheBefore

\* An encode whose output outgrew the 2048 bytes handed its buffer to the
\* caller and kept none, although the encoder had one when it was called.
C22_Witness ==
  /\ AnyEncodeReturned
  /\ ret.rv = NS_OK
  /\ ret.shared
  /\ ret.buffer.storage > kStringBufferSizeInBytes
  /\ ret.cacheBefore # NoStringBuffer
  /\ mCachedBuffer = NoStringBuffer

\* EncodeToStringWithMaxLength walked the whole document and no call of
\* the serializer failed.
WholeDocumentWalkedWithMaxLength ==
  /\ ret.op = "EncodeToStringWithMaxLength"
  /\ ~ret.crashed
  /\ ret.walked
  /\ ret.scope = EmptyScope
  /\ ~ret.failed

\* The length of the output when event k of the returned log was made.
OutputLengthBefore(k) == SumLengths(SubSeq(ret.log, 1, k - 1))

\* Event k of the returned log is the start of a node.
StartsNode(k) == ret.log[k].op \in {"start", "text", "comment"}

\* aEndOffset is the number aMaxLength - outputLength, aMaxLength being the
\* uint32_t of the bits of the int32_t it is kept as.
IsDifference(aEndOffset, aMaxLength, outputLength) ==
  IF aMaxLength >= 0
    THEN aEndOffset = aMaxLength - outputLength
    ELSE /\ aEndOffset >= 0
         /\ (aEndOffset - INT32_MAX) + outputLength - 1 = aMaxLength - INT32_MIN

\* C23: a whole-document encode with max_length > 0 starts no node once the
\* output is max_length long or longer, returns success, and the end offset
\* it passes for a node it starts is max_length minus the length of the
\* output at that moment, which is greater than zero.
C23_Original ==
  WholeDocumentWalkedWithMaxLength =>
    /\ ret.rv = NS_OK
    /\ \A k \in 1..Len(ret.log) :
         StartsNode(k) =>
           /\ ~AtLeast(OutputLengthBefore(k), ret.maxLength)
           /\ ret.log[k].op \in {"text", "comment"} =>
                /\ IsDifference(ret.log[k].e, ret.maxLength, OutputLengthBefore(k))
                /\ ret.log[k].e > 0

\* What the serializer received between the start and the end of the
\* context of the only range of a call; all it received when the call
\* returned before the context.
WalkLog ==
  IF Len(ret.hist) = 2 THEN SubSeq(ret.log, ret.hist[1].upto + 1, ret.hist[2].at)
  ELSE ret.log

\* A node is on the way to a boundary of a range when it is the container
\* of the boundary or an ancestor of it.
OnTheWayTo(aContainer, n) == n \in SeqToSet(InclusiveAncestorsOf(tree, aContainer))

\* The child of n on the way to a container under n.
ChildOnTheWayTo(aContainer, n) ==
  CHOOSE c \in SeqToSet(Children(tree, n)) : OnTheWayTo(aContainer, c)

\* The index of the first child of n that is not before the start of r.
FirstChildIn(r, n) ==
  IF n = r.sc THEN r.so
  ELSE IF OnTheWayTo(r.sc, n)
         THEN ComputeIndexOf(tree, n, ChildOnTheWayTo(r.sc, n))
         ELSE 0

\* The index after the last child of n that is not after the end of r.
LastChildIn(r, n) ==
  IF n = r.ec THEN r.eo
  ELSE IF OnTheWayTo(r.ec, n)
         THEN ComputeIndexOf(tree, n, ChildOnTheWayTo(r.ec, n)) + 1
         ELSE GetChildCount(tree, n)

RECURSIVE PartOfChildren(_, _, _, _)
\* What the claim lets the walk emit for the children of n from index i to
\* the one before index j: the part of a child on the way to a boundary
\* (its start and end around the part of its children, or the text of the
\* range when it is a text), the whole of any other child.
PartOfChildren(r, n, i, j) ==
  IF i >= j THEN <<>>
  ELSE Let(GetChildAt(tree, n, i), LAMBDA c :
         (IF ~(OnTheWayTo(r.sc, c) \/ OnTheWayTo(r.ec, c)) THEN AloneLog(c)
          ELSE IF IsText(tree, c)
            THEN <<Event("text", c, IF c = r.sc THEN r.so ELSE 0,
                                    IF c = r.ec THEN r.eo ELSE -1)>>
            ELSE <<Event("start", c, 0, 0)>>
                   \o PartOfChildren(r, c, FirstChildIn(r, c), LastChildIn(r, c))
                   \o <<Event("end", c, 0, 0)>>)
         \o PartOfChildren(r, n, i + 1, j))

\* What the claim lets the walk emit for a range: the part of the children
\* of the common ancestor, or the text of the range when the common ancestor
\* is a text.
PartInRange(r, aCommon) ==
  IF IsText(tree, aCommon)
    THEN <<Event("text", aCommon, r.so, r.eo)>>
    ELSE PartOfChildren(r, aCommon, FirstChildIn(r, aCommon), LastChildIn(r, aCommon))

\* A successful walk of a range that is not collapsed and whose common
\* ancestor is a content node.
ContentRangeWalked ==
  /\ RangeWalkSucceeded
  /\ ~Collapsed(ret.range)
  /\ IsContent(tree, GetClosestCommonInclusiveAncestor(ret.range))

PartlyContained(r) ==
  {n \in NodesOf(tree) :
     /\ OnTheWayTo(r.sc, n) \/ OnTheWayTo(r.ec, n)
     /\ OnTheWayTo(n, GetClosestCommonInclusiveAncestor(r))}

\* The walk of a range goes through the light children of every node on the
\* way to a boundary: none of them is skipped as invisible, none is a shadow
\* host whose shadow root is walked in their place, and a text that holds
\* both boundaries has no invisible parent.
WalksLightChildren(r) ==
  /\ \A n \in PartlyContained(r) :
       /\ ~IsInvisibleNodeAndShouldBeSkipped(n)
       /\ ~(AllowCross /\ tree.shadow[n] # Null)
  /\ ~(r.sc = r.ec /\ IsText(tree, r.sc) /\ HasInvisibleParentAndShouldBeSkipped(r.sc))

IterativeWalked ==
  /\ ret.op = "EncodeToString"
  /\ ~ret.crashed
  /\ ret.walked
  /\ ret.scope.mNode # Null
  /\ ret.scope.mNodeIsContainer
  /\ ~ret.scope.mSelection.set /\ ret.scope.mRange.sc = Null
  /\ SkipInvisibleContent \notin mFlags
  /\ ~mTextStreamer.isSome

\* What the serializer received during a walk.
WalkEvents(log) == SelectSeq(log, LAMBDA ev : ev.op # "finish")

\* The recursive traversal of a node without its root, the serializer
\* failing at the same call.
RecursiveWalk(aNode, failAt) == SerializeToStringRecursive(NewWalk(failAt), aNode, FALSE, 0)

\* C25: whenever SerializeNode chooses the iterative traversal, the
\* serializer receives the events of the recursive traversal of the same
\* node without its root, in trees with templates and, with
\* AllowCrossShadowBoundary, in trees with shadow hosts and slots.
C25_Original ==
  IterativeWalked =>
    WalkEvents(ret.log) = RecursiveWalk(ret.scope.mNode, ret.failAt).ser.log

\* The node above a node: its parent, or the <template> whose content its
\* parent is.
Above(n) ==
  IF IsDocumentFragment(tree, GetParentNode(tree, n)) /\ ~IsShadowRoot(tree, GetParentNode(tree, n))
    THEN GetHost(tree, GetParentNode(tree, n))
    ELSE GetParentNode(tree, n)

RECURSIVE IsBelow(_, _)
\* n is a descendant of aNode, the content of a <template> being below the
\* <template>.
IsBelow(n, aNode) ==
  IF n = Null \/ Above(n) = Null THEN aNode # Null /\ GetParentNode(tree, n) = aNode
  ELSE Above(n) = aNode \/ GetParentNode(tree, n) = aNode \/ IsBelow(Above(n), aNode)

\* The descendants of a node that have a start: its elements and texts.
DescendantsOf(aNode) ==
  {n \in NodesOf(tree) : IsBelow(n, aNode) /\ (IsElement(tree, n) \/ IsText(tree, n))}

\* The places of the log where the serializer received an event of a node.
PlacesOf(log, op, n) == {k \in DOMAIN log : log[k].op = op /\ log[k].node = n}

\* The first and the last place of a node in the log.
FirstPlace(log, n) == CHOOSE k \in DOMAIN log : log[k].node = n /\ \A j \in 1..(k - 1) : log[j].node # n

LastPlace(log, n) == CHOOSE k \in DOMAIN log : log[k].node = n /\ \A j \in (k + 1)..Len(log) : log[j].node # n

\* The events of the nodes are nested as the nodes are: what is below a node
\* lies between its start and its end, what is beside it lies before or
\* after both.
NestedAsTheNodes(log, nodes) ==
  \A a, b \in nodes :
    a # b =>
      IF IsBelow(b, a)
        THEN FirstPlace(log, a) < FirstPlace(log, b) /\ LastPlace(log, b) < LastPlace(log, a)
        ELSE IsBelow(a, b)
             \/ LastPlace(log, a) < FirstPlace(log, b)
             \/ LastPlace(log, b) < FirstPlace(log, a)

\* The iterative walk of a container node returned NS_OK and the serializer
\* accepted every call.
IterativeWalkSucceeded == IterativeWalked /\ ret.rv = NS_OK /\ ~ret.failed

PromotedPoint == ret.op \in {"GetPromotedStartPoint", "GetPromotedEndPoint"}

\* The parent of a node in the tree kind of the encoder; in the flattened
\* tree a shadow root hangs under its host.
TreeKindParent(n) ==
  IF AllowCross /\ IsShadowRoot(tree, n) THEN GetHost(tree, n)
  ELSE ParentOfRangeInNode(n, AllowCross)

RECURSIVE TreeKindAncestors(_)
\* The inclusive ancestors of a node in the tree kind of the encoder.
TreeKindAncestors(n) ==
  IF n = Null THEN {} ELSE {n} \cup TreeKindAncestors(TreeKindParent(n))

\* The inclusive ancestors of a node, in the light tree and in the tree kind
\* of the encoder.
AncestorsInTrees(n) ==
  SeqToSet(InclusiveAncestorsOf(tree, n)) \cup TreeKindAncestors(n)

\* The root elements: <body>, <td>, <th> and <slot>; <div> in a text widget.
IsRootElement(n) ==
  IsElement(tree, n)
    /\ Tag(tree, n) \in (IF mIsTextWidget THEN {"div"} ELSE {"body", "td", "th", "slot"})

\* C27: the point GetPromotedStartPoint or GetPromotedEndPoint returns is in
\* the container of the original point or in an ancestor of it, and its
\* container is never a proper ancestor of a root element that is an
\* inclusive ancestor of the container of the original point: the climb
\* never leaves a root element.
C27_NeverClimbsOutOfARoot ==
  (PromotedPoint /\ ~ret.err /\ IsSet(ret.pt)) =>
    /\ ret.pt.c \in AncestorsInTrees(ret.point.c)
    /\ \A r \in AncestorsInTrees(ret.point.c) :
         IsRootElement(r) => ret.pt.c \notin (AncestorsInTrees(r) \ {r})

\* The climb left the container of the original point and stopped in a root
\* element below the common ancestor.
C27_Witness ==
  /\ PromotedPoint /\ ~ret.err
  /\ ret.pt.c # ret.point.c
  /\ IsRootElement(ret.pt.c)
  /\ ret.common \in (AncestorsInTrees(ret.pt.c) \ {ret.pt.c})

\* The containers a climb from the parent of a text node left before it
\* stopped in a container: the inclusive ancestors of the parent that are
\* proper descendants of the container the climb stopped in.
ContainersPassed(aText, stop) ==
  {c \in TreeKindAncestors(TreeKindParent(aText)) : stop \in (TreeKindAncestors(c) \ {c})}

PassedABlock(aText, stop) ==
  \E c \in ContainersPassed(aText, stop) : IsElement(tree, c) /\ IsBlock(c)

\* What C28 says a promotion from inside a text returns: the original point
\* when the text on the side of the climb has a character that is not white
\* space; otherwise the point promoted from the edge of the text when the
\* climb to it left a block element, and the original point when it left
\* none.
FromInsideText(onlyWhitespace, fromEdge) ==
  IF ~onlyWhitespace THEN ret.point
  ELSE IF ~fromEdge.err /\ PassedABlock(ret.point.c, fromEdge.pt.c) THEN fromEdge.pt
  ELSE ret.point

StartInsideText ==
  /\ ret.op = "GetPromotedStartPoint" /\ ~ret.err
  /\ IsText(tree, ret.point.c) /\ ret.point.o > 0

EndInsideText ==
  /\ ret.op = "GetPromotedEndPoint" /\ ~ret.err
  /\ IsText(tree, ret.point.c) /\ ret.point.o < LengthOf(tree, ret.point.c)

\* The promotion of the start of the text of the original point.
FromStartOfText ==
  GetPromotedStartPoint([c |-> ret.point.c, o |-> 0], ret.common, AllowCross, mIsTextWidget)

\* The promotion of the end of the text of the original point.
FromEndOfText ==
  GetPromotedEndPoint([c |-> ret.point.c, o |-> LengthOf(tree, ret.point.c)], ret.common, AllowCross, mIsTextWidget)

\* C28: a start boundary in a text at an offset that is not 0 is returned as
\* it is when the text before it has a character that is not white space;
\* when that text is white space only, it is returned as it is unless the
\* climb left at least one block element, and then the promoted point is
\* returned.  An end boundary before the end of a text behaves the same
\* way with the text after it.
C28_ResetUnlessBlockCrossed ==
  /\ StartInsideText =>
       ret.pt = FromInsideText(TextStartsWithOnlyWhitespace(ret.point.c, ret.point.o),
                               FromStartOfText)
  /\ EndInsideText =>
       ret.pt = FromInsideText(TextEndsWithOnlyWhitespace(ret.point.c, ret.point.o),
                               FromEndOfText)

\* After white space only, a climb that left a block element: the promoted
\* point is returned.
C28_Witness ==
  /\ StartInsideText
  /\ TextStartsWithOnlyWhitespace(ret.point.c, ret.point.o)
  /\ PassedABlock(ret.point.c, ret.pt.c)
  /\ ret.pt # ret.point

\* C30: whenever GetPromotedStartPoint or GetPromotedEndPoint returns a
\* result that is not an error, the boundary returned is set, also when the
\* container of the original boundary has no children and its parent point
\* cannot be resolved.
C30_Original == (PromotedPoint /\ ~ret.err) => IsSet(ret.pt)

(***************************************************************************)
(* Properties of PromoteAncestorChain.                                     *)
(***************************************************************************)
PromotedChain == ret.op = "PromoteAncestorChain" /\ ~ret.err

RECURSIVE ChainOf(_)
\* A container, its parent as RangeInNode::GetParentNode gives it, the
\* parent of that, and so on.
ChainOf(aContainer) ==
  IF aContainer = Null THEN <<>>
  ELSE <<aContainer>> \o ChainOf(ParentOfRangeInNode(aContainer, AllowCross))

\* The range at a level of the chain of the original container: the
\* original range at the first level, the range around the container of the
\* level below at the others.
RangeAtLevel(chain, i) ==
  IF i = 1 THEN ret.rangeInNode
  ELSE RangeInNode(chain[i], ComputeIndexOfContent(chain[i], chain[i - 1], AllowCross),
                   ComputeIndexOfContent(chain[i], chain[i - 1], AllowCross) + 1)

\* Both promoted points of a range land in a node.
BothLandIn(rangeInNode, parentNode) ==
  /\ GetPromotedStartPoint(StartRef(rangeInNode), parentNode, AllowCross, mIsTextWidget).pt.c = parentNode
  /\ GetPromotedEndPoint(EndRef(rangeInNode), parentNode, AllowCross, mIsTextWidget).pt.c = parentNode

\* The chain was climbed up to level k: the result is the range of that
\* level, and at every level below both promoted points landed in the
\* parent, which is as editable as the original container.
ClimbedTo(chain, k) ==
  /\ ret.rng = RangeAtLevel(chain, k)
  /\ \A i \in 1..(k - 1) :
       /\ BothLandIn(RangeAtLevel(chain, i), chain[i + 1])
       /\ IsEditable(chain[i + 1]) = IsEditable(ret.rangeInNode.c)

\* C29: PromoteAncestorChain returns the range it was given, or the range
\* around an ancestor of its container, both offsets moved together; every
\* level it climbed had both promoted points in the parent, and every
\* container it climbed into is as editable as the original container.
C29_ChainMovesBothOrNone ==
  PromotedChain =>
    \E k \in 1..Len(ChainOf(ret.rangeInNode.c)) : ClimbedTo(ChainOf(ret.rangeInNode.c), k)

\* The chain climbed two levels.
C29_Witness ==
  /\ PromotedChain
  /\ Len(ChainOf(ret.rangeInNode.c)) >= 3
  /\ ret.rng.c = ChainOf(ret.rangeInNode.c)[3]

(***************************************************************************)
(* Properties of the public calls across passes.                           *)
(***************************************************************************)
\* The step is a call of SetSelection that returns a failure.
SetSelectionFails == ret'.op = "SetSelection" /\ ret'.rv # NS_OK

\* C32 as stated: when nsHTMLCopyEncoder::SetSelection returns a failure,
\* the scope of the encoder and its text-widget mode are what they were
\* before the call.
C32_Original ==
  [][SetSelectionFails =>
       mEncodingScope' = mEncodingScope /\ mIsTextWidget' = mIsTextWidget]_vars

\* EncodeToString or EncodeToStringWithMaxLength was called and has run to
\* its return or to a failed release assertion.
PassEnded == ret.op \in {"EncodeToString", "EncodeToStringWithMaxLength"}

\* The SerializeRangeContextEnd calls of the pass that were not suppressed
\* and found no list of range contexts.
EndsWithoutStart ==
  {k \in DOMAIN ret.hist : ret.hist[k].call = "End" /\ ret.hist[k].depth = 0}

\* C33 as stated: no sequence of public calls reaches
\* SerializeRangeContextEnd with the context serialization enabled and no
\* list of range contexts.
C33_Original == PassEnded => EndsWithoutStart = {}

\* C34 as stated: when an encode call returns, with success or with a
\* failure raised in the middle of the walk of a selection, the flag that
\* suppresses the context is false.
C34_Original ==
  (PassEnded /\ ~ret.crashed) => ~mRangeContextSerializer.mDisableContextSerialize

\* C35 as stated: when EncodeToStream returns, with success or with any
\* failure, a failed final flush included, the encoder holds no TextStreamer.
C35_Original == (ret.op = "EncodeToStream" /\ ~ret.crashed) => ~mTextStreamer.isSome

\* An encode call got as far as the serializer: the encoder had a document
\* and a content serializer exists for its MIME type.
SerializerUsed ==
  /\ ret.op \in {"EncodeToString", "EncodeToStringWithContext"}
  /\ ~ret.crashed
  /\ ret.document # Null
  /\ mSerializer # nullptr

\* C38 as stated: at every encode the content serializer that is used was
\* created for the MIME type the encoder is configured with, for any
\* sequence of Init, SetSelection and encode calls.
C38_Original == SerializerUsed => mSerializer = mMimeType

RECURSIVE Unmatched(_, _, _)
\* The elements whose start the events of log from the k-th on leave
\* without an end, the innermost last, when open are those left open before;
\* <<Null>> when an end comes for a node that is not the innermost open one.
Unmatched(log, k, open) ==
  IF k > Len(log) THEN open
  ELSE IF log[k].op = "start" THEN Unmatched(log, k + 1, Append(open, log[k].node))
  ELSE IF log[k].op = "end"
    THEN IF open # <<>> /\ open[Len(open)] = log[k].node
           THEN Unmatched(log, k + 1, SubSeq(open, 1, Len(open) - 1))
           ELSE <<Null>>
  ELSE Unmatched(log, k + 1, open)

\* An encode call returned NS_OK and the serializer accepted every call.
PassSucceeded ==
  /\ ret.op \in {"EncodeToString", "EncodeToStringWithContext"}
  /\ ret.rv = NS_OK
  /\ ~ret.crashed
  /\ ~ret.failed

\* C37 as stated: in every successful encode pass the element events are
\* balanced and properly nested: every end of a node closes the innermost
\* open start, which is of the same node, and no start stays open, for
\* every flag combination and every scope.
C37_Original == PassSucceeded => Unmatched(ret.log, 1, <<>>) = <<>>

(***************************************************************************)
(* The TextStreamer on its own: a streamer whose buffer holds some text    *)
(* receives one call.                                                      *)
(***************************************************************************)
\* Buffers around the flush threshold and around the size of a chunk, with
\* characters of one, two and three bytes and one windows-1252 lacks.
StreamerTexts ==
  {<<>>,
   <<Run("x", 2), Run("s", 1)>>,
   <<Run("x", kMaxLengthBeforeFlush - 1)>>,
   <<Run("x", kMaxLengthBeforeFlush)>>,
   <<Run("x", kMaxLengthBeforeFlush + 1)>>,
   <<Run("x", 1020), Run("s", 2), Run("w", 10)>>,
   <<Run("e", kMaxLengthBeforeFlush + 1)>>,
   <<Run("x", kEncoderBufferSizeInBytes - 1)>>,
   <<Run("x", kEncoderBufferSizeInBytes)>>,
   <<Run("x", kEncoderBufferSizeInBytes - 2), Run("e", 3)>>,
   <<Run("x", kEncoderBufferSizeInBytes - 3), Run("s", 2)>>,
   <<Run("e", 5000)>>}

InitStreamer ==
  /\ tree = DocInline
  /\ isCopy = FALSE
  /\ mDocument = Null
  /\ mFlags = {}
  /\ mEncodingScope = EmptyScope
  /\ mRangeContextSerializer = NewRangeContextSerializer
  /\ mRangeSerializer = NewRangeSerializer
  /\ mIsTextWidget = FALSE
  /\ mMimeType \in {kTextMime, kHTMLMime}
  /\ mEncoding \in Encodings
  /\ mSerializer = nullptr
  /\ mTextStreamer \in {TextStreamer(NewStream(failAt), mEncoding, mMimeType = kTextMime, text) :
                          failAt \in 0..MaxWriteFailAt, text \in StreamerTexts}
  /\ mCachedBuffer = NoStringBuffer
  /\ ret = [op |-> "none"]

\* What the call left in the streamer and what it returned; before is the
\* streamer the call found.
AfterFlush(op, f) ==
  /\ mTextStreamer' = f.ts
  /\ ret' = [op |-> op, rv |-> f.rv, before |-> mTextStreamer]
  /\ UNCHANGED <<tree, isCopy, mDocument, mFlags, mEncodingScope, mRangeContextSerializer,
                 mRangeSerializer, mIsTextWidget, mMimeType, mEncoding, mSerializer,
                 mCachedBuffer>>

CallFlushIfStringLongEnough ==
  /\ ret.op = "none"
  /\ AfterFlush("FlushIfStringLongEnough", FlushIfStringLongEnough(mTextStreamer))

CallForceFlush ==
  /\ ret.op = "none"
  /\ AfterFlush("ForceFlush", ForceFlush(mTextStreamer))

NextStreamer == CallFlushIfStringLongEnough \/ CallForceFlush

SpecStreamer == InitStreamer /\ [][NextStreamer]_vars

\* The call wrote to the sink.
Wrote == mTextStreamer.mStream.calls > ret.before.mStream.calls

\* C18: FlushIfStringLongEnough writes and empties the buffer exactly when
\* the buffer holds more than 1024 code units, and otherwise leaves the
\* streamer as it found it; after ForceFlush, and after every call that
\* wrote, the buffer is empty, whether or not the sink accepted the write.
C18_FlushOnlyWhenLongEnough ==
  /\ ret.op = "FlushIfStringLongEnough" =>
       IF TextLength(ret.before.mOutputBuffer) > 1024
         THEN Wrote /\ mTextStreamer.mOutputBuffer = <<>>
         ELSE mTextStreamer = ret.before /\ ret.rv = NS_OK
  /\ ret.op = "ForceFlush" => mTextStreamer.mOutputBuffer = <<>>
  /\ ret.op \in {"FlushIfStringLongEnough", "ForceFlush"} /\ Wrote =>
       mTextStreamer.mOutputBuffer = <<>>

\* A flush of a buffer of 1025 code units failed in the sink and left the
\* buffer empty.
C18_Witness ==
  /\ ret.op = "FlushIfStringLongEnough"
  /\ TextLength(ret.before.mOutputBuffer) = 1025
  /\ ret.rv # NS_OK
  /\ Wrote
  /\ mTextStreamer.mOutputBuffer = <<>>

====
